---- MODULE Spec2Model ----
(***************************************************************************)
(* Electronic Health Record system: the relational store (tables,         *)
(* referential constraints, row-level security policies and the sign-up   *)
(* trigger of the SQL migration) and the Appointments page that reads and *)
(* writes it through the store's API.                                     *)
(*                                                                         *)
(* The migration enables row-level security on all five tables.  A        *)
(* command on a table is allowed for a row exactly when some policy       *)
(* created FOR that command on that table holds for the row; with no      *)
(* such policy the command is denied for every row.  Rows of patients,    *)
(* doctors, appointments and medical_records therefore enter the store    *)
(* only through the SQL editor (README, "Test Data"), which bypasses the  *)
(* policies but not the constraints of the CREATE TABLE statements: these *)
(* are the Provision actions.                                             *)
(***************************************************************************)
EXTENDS Integers, Sequences, FiniteSets, TLC

\* ------------------------------------------------------------------ bounds
NUsers == 2
MaxPatients == 1
MaxDoctors == 1
MaxAppointments == 2
MaxRecords == 1
MaxDate == 2
MaxTime == 2
NClients == 1
MaxInFlight == 2

Users == 1..NUsers
Dates == 1..MaxDate
Times == 1..MaxTime
Clients == 1..NClients

\* -------------------------------------------------------------- constants
NULL == "NULL"
\* A uuid column or form field holding no id (SQL NULL, or '' in a form).
NoId == 0
Roles == {"patient", "doctor", "admin"}
Statuses == {"scheduled", "completed", "cancelled", "no_show"}

VARIABLES
    profiles,         \* public.profiles
    patients,         \* public.patients
    doctors,          \* public.doctors
    appointments,     \* public.appointments
    medical_records,  \* public.medical_records
    lastWrite,        \* the last insert/update statement the store executed
    authUid,          \* per client: the identity of its session (auth.uid())
    userProfile,      \* per client: useAuth().userProfile, {} while null
    pageAppointments, \* per client: Appointments.appointments (the fetched list)
    loading,          \* per client: Appointments.loading
    fetches,          \* per client: the fetchAppointments calls in flight
    doctorOptions,    \* per client: Appointments.doctors (booking options)
    patientOptions,   \* per client: Appointments.patients (booking options)
    optionsPending,   \* per client: a fetchDoctorsAndPatients call in flight
    toast,            \* per client: the last notification shown
    lastFetch,        \* per client: how the last fetchAppointments call ended
    searchTerm,       \* per client: Appointments.searchTerm
    statusFilter,     \* per client: Appointments.statusFilter
    isDialogOpen,     \* per client: Appointments.isDialogOpen
    appointmentForm,  \* per client: Appointments.appointmentForm
    layout,           \* per client: the route shown, useAuth().loading, AppLayout's effect
    recordsPage,      \* per client: the state of the MedicalRecords page
    patientsPage,     \* per client: the state of the Patients page
    doctorsPage       \* per client: the state of the Doctors page

storeVars == <<profiles, patients, doctors, appointments, medical_records>>
pageVars == <<authUid, userProfile, pageAppointments, loading, fetches,
              doctorOptions, patientOptions, optionsPending, toast, lastFetch>>
filterVars == <<searchTerm, statusFilter>>
formVars == <<isDialogOpen, appointmentForm>>
otherVars == <<layout, recordsPage, patientsPage, doctorsPage>>
vars == <<profiles, patients, doctors, appointments, medical_records, lastWrite,
          authUid, userProfile, pageAppointments, loading, fetches,
          doctorOptions, patientOptions, optionsPending, toast, lastFetch,
          searchTerm, statusFilter, isDialogOpen, appointmentForm,
          layout, recordsPage, patientsPage, doctorsPage>>

Ids(table) == {r.id : r \in table}

\* DEFAULT gen_random_uuid(): an id no row of the table carries.
gen_random_uuid(table) ==
    CHOOSE i \in 1..(Cardinality(table) + 1) : i \notin Ids(table)

\* raw_user_meta_data->>'full_name' as entered at sign-up by each user.
FullNameOf(u) ==
    IF u = 1 THEN <<"J", "a", "n", "e", " ", "D", "o", "e">>
             ELSE <<"J", "o", "h", "n", " ", "R", "o", "e">>

RowById(table, id) == CHOOSE r \in table : r.id = id

\* ------------------------------------------------------ row-level policies
\* "Users can view their own profile"
UsersCanViewOwnProfile(uid, row) == uid = row.user_id
\* "Users can update their own profile"
UsersCanUpdateOwnProfile(uid, row) == uid = row.user_id
\* "Users can insert their own profile"
UsersCanInsertOwnProfile(uid, row) == uid = row.user_id

\* "Patients can view their own data"
PatientsCanViewOwnData(uid, row) ==
    \E prof \in profiles : prof.id = row.profile_id /\ prof.user_id = uid
\* "Doctors can view their patients"
DoctorsCanViewTheirPatients(uid, row) ==
    \E p1 \in profiles : \E d \in doctors :
        p1.id = d.profile_id /\ p1.user_id = uid /\ p1.role = "doctor"
\* "Admins can view all patients"
AdminsCanViewAllPatients(uid, row) ==
    \E prof \in profiles : prof.user_id = uid /\ prof.role = "admin"

\* "Everyone can view doctors"
EveryoneCanViewDoctors(uid, row) == TRUE
\* An update policy that admits every identity whose role is doctor.
DoctorsCanUpdateAnyData(uid, row) ==
    \E prof \in profiles : prof.user_id = uid /\ prof.role = "doctor"
\* "Doctors can update their own data"
DoctorsCanUpdateOwnData(uid, row) ==
    \E prof \in profiles : prof.id = row.profile_id /\ prof.user_id = uid

\* "Patients can view their appointments" / "... their medical records"
PatientsCanViewTheirs(uid, row) ==
    \E p \in patients : \E prof \in profiles :
        p.profile_id = prof.id /\ p.id = row.patient_id /\ prof.user_id = uid
\* "Doctors can view their appointments" / "... medical records for their patients"
DoctorsCanViewTheirs(uid, row) ==
    \E d \in doctors : \E prof \in profiles :
        d.profile_id = prof.id /\ d.id = row.doctor_id /\ prof.user_id = uid

\* The policies with one more: FOR UPDATE on appointments for the doctor
\* whose doctors row the appointment names.
PoliciesWithDoctorUpdate ==
    { <<"profiles", "SELECT", "own_profile">>,
      <<"profiles", "UPDATE", "own_profile">>,
      <<"profiles", "INSERT", "own_profile">>,
      <<"patients", "SELECT", "patient_own">>,
      <<"patients", "SELECT", "doctor_any">>,
      <<"patients", "SELECT", "admin_any">>,
      <<"doctors", "SELECT", "everyone">>,
      <<"doctors", "UPDATE", "doctor_own">>,
      <<"appointments", "SELECT", "as_patient">>,
      <<"appointments", "SELECT", "as_doctor">>,
      <<"appointments", "UPDATE", "as_doctor">>,
      <<"medical_records", "SELECT", "as_patient">>,
      <<"medical_records", "SELECT", "as_doctor">> }

\* The policies with one more: FOR INSERT on medical_records for the doctor
\* whose doctors row the record names.
PoliciesWithDoctorRecordInsert ==
    { <<"profiles", "SELECT", "own_profile">>,
      <<"profiles", "UPDATE", "own_profile">>,
      <<"profiles", "INSERT", "own_profile">>,
      <<"patients", "SELECT", "patient_own">>,
      <<"patients", "SELECT", "doctor_any">>,
      <<"patients", "SELECT", "admin_any">>,
      <<"doctors", "SELECT", "everyone">>,
      <<"doctors", "UPDATE", "doctor_own">>,
      <<"appointments", "SELECT", "as_patient">>,
      <<"appointments", "SELECT", "as_doctor">>,
      <<"medical_records", "SELECT", "as_patient">>,
      <<"medical_records", "SELECT", "as_doctor">>,
      <<"medical_records", "INSERT", "as_doctor">> }

\* The CREATE POLICY statements of the migration: table, command, predicate.
Policies ==
    { <<"profiles", "SELECT", "own_profile">>,
      <<"profiles", "UPDATE", "own_profile">>,
      <<"profiles", "INSERT", "own_profile">>,
      <<"patients", "SELECT", "patient_own">>,
      <<"patients", "SELECT", "doctor_any">>,
      <<"patients", "SELECT", "admin_any">>,
      <<"doctors", "SELECT", "everyone">>,
      <<"doctors", "UPDATE", "doctor_own">>,
      <<"appointments", "SELECT", "as_patient">>,
      <<"appointments", "SELECT", "as_doctor">>,
      <<"medical_records", "SELECT", "as_patient">>,
      <<"medical_records", "SELECT", "as_doctor">> }

PolicyHolds(pred, uid, row) ==
    CASE pred = "own_profile" -> UsersCanViewOwnProfile(uid, row)
      [] pred = "patient_own" -> PatientsCanViewOwnData(uid, row)
      [] pred = "doctor_any"  -> DoctorsCanViewTheirPatients(uid, row)
      [] pred = "admin_any"   -> AdminsCanViewAllPatients(uid, row)
      [] pred = "everyone"    -> EveryoneCanViewDoctors(uid, row)
      [] pred = "doctor_own"  -> DoctorsCanUpdateOwnData(uid, row)
      [] pred = "as_patient"  -> PatientsCanViewTheirs(uid, row)
      [] pred = "as_doctor"   -> DoctorsCanViewTheirs(uid, row)

\* ENABLE ROW LEVEL SECURITY: policies of one command on one table are
\* OR-ed; no policy for the command means no row passes.
Allowed(table, cmd, uid, row) ==
    \E pol \in Policies :
        pol[1] = table /\ pol[2] = cmd /\ PolicyHolds(pol[3], uid, row)

\* What a SELECT by identity uid returns from each table.
VisibleProfiles(uid) == {r \in profiles : Allowed("profiles", "SELECT", uid, r)}
VisiblePatients(uid) == {r \in patients : Allowed("patients", "SELECT", uid, r)}
VisibleDoctors(uid) == {r \in doctors : Allowed("doctors", "SELECT", uid, r)}
VisibleAppointments(uid) ==
    {r \in appointments : Allowed("appointments", "SELECT", uid, r)}
VisibleRecords(uid) ==
    {r \in medical_records : Allowed("medical_records", "SELECT", uid, r)}

\* The profile an identity resolves to (profiles.user_id is UNIQUE).
HasProfile(uid) == \E p \in profiles : p.user_id = uid
ProfileOfUser(uid) == CHOOSE p \in profiles : p.user_id = uid
RoleOfUser(uid) == IF HasProfile(uid) THEN ProfileOfUser(uid).role ELSE NULL
\* The ids of the patients / doctors rows whose profile belongs to uid.
OwnPatientIds(uid) ==
    {p.id : p \in {q \in patients : \E prof \in profiles :
                       prof.id = q.profile_id /\ prof.user_id = uid}}
OwnDoctorIds(uid) ==
    {d.id : d \in {q \in doctors : \E prof \in profiles :
                       prof.id = q.profile_id /\ prof.user_id = uid}}

\* ------------------------------------------------------------ table rows
\* The constraints of public.profiles with user_id not UNIQUE.
ProfileConstraintsNotUnique(row) == row.role \in Roles

\* user_id UNIQUE and the CHECK on role of public.profiles.
ProfileConstraints(row) ==
    /\ row.role \in Roles
    /\ \A p \in profiles : p.user_id # row.user_id

\* handle_new_user: the profile row the sign-up trigger inserts.
handle_new_user(u, metaRole) ==
    [id |-> gen_random_uuid(profiles),
     user_id |-> u,
     full_name |-> FullNameOf(u),
     role |-> IF metaRole = NULL THEN "patient" ELSE metaRole]

\* The appointments row with another status default.
NewAppointmentDefaultCompleted(v) ==
    [id |-> CHOOSE i \in 1..(Cardinality(appointments) + 1) :
                \A r \in appointments : r.id # i,
     patient_id |-> v.patient_id,
     doctor_id |-> v.doctor_id,
     appointment_date |-> v.appointment_date,
     appointment_time |-> v.appointment_time,
     status |-> IF v.status = NULL THEN "completed" ELSE v.status,
     reason |-> v.reason]

\* CREATE TABLE public.appointments: the row an INSERT of `v` stores
\* (status DEFAULT 'scheduled' when the statement names no status).  A
\* nullable text column holds a set: {} is NULL, {s} is the text s.
NewAppointment(v) ==
    [id |-> gen_random_uuid(appointments),
     patient_id |-> v.patient_id,
     doctor_id |-> v.doctor_id,
     appointment_date |-> v.appointment_date,
     appointment_time |-> v.appointment_time,
     status |-> IF v.status = NULL THEN "scheduled" ELSE v.status,
     reason |-> v.reason]

\* NOT NULL, REFERENCES and CHECK constraints of public.appointments.
AppointmentConstraints(row) ==
    /\ row.patient_id \in Ids(patients)
    /\ row.doctor_id \in Ids(doctors)
    /\ row.appointment_date \in Dates
    /\ row.appointment_time \in Times
    /\ row.status \in Statuses

\* CREATE TABLE public.medical_records.
NewRecord(v) ==
    [id |-> gen_random_uuid(medical_records),
     patient_id |-> v.patient_id,
     doctor_id |-> v.doctor_id,
     appointment_id |-> v.appointment_id]

RecordConstraints(row) ==
    /\ row.patient_id \in Ids(patients)
    /\ row.doctor_id \in Ids(doctors)
    /\ row.appointment_id \in Ids(appointments) \cup {NoId}

\* ------------------------------------------------- API writes (under RLS)
\* supabase.from('appointments').insert(v) by identity uid: the row is
\* stored when the constraints hold and an INSERT policy admits it;
\* otherwise the statement fails with an error.
InsertAppointment(uid, v) ==
    LET row == NewAppointment(v)
        ok == /\ AppointmentConstraints(row)
              /\ Allowed("appointments", "INSERT", uid, row)
    IN [error |-> ~ok,
        table |-> IF ok THEN appointments \cup {row} ELSE appointments]

\* supabase.from('appointments').update({status}).eq('id', id) by uid: the
\* rows changed are those the SELECT and the UPDATE policies both admit;
\* an update that matches no row is not an error.
UpdateAppointmentStatus(uid, id, newStatus) ==
    LET target == {r \in appointments :
                      /\ r.id = id
                      /\ Allowed("appointments", "SELECT", uid, r)
                      /\ Allowed("appointments", "UPDATE", uid, r)}
    IN [error |-> newStatus \notin Statuses,
        table |-> IF newStatus \in Statuses
                  THEN (appointments \ target)
                         \cup {[r EXCEPT !.status = newStatus] : r \in target}
                  ELSE appointments]

\* supabase.from('medical_records').insert(v) by identity uid.
InsertRecord(uid, v) ==
    LET row == NewRecord(v)
        ok == /\ RecordConstraints(row)
              /\ Allowed("medical_records", "INSERT", uid, row)
    IN [error |-> ~ok,
        table |-> IF ok THEN medical_records \cup {row} ELSE medical_records]

\* doctors.specialization TEXT NOT NULL: the values written here.
Specializations == {"General Practice", "Cardiology"}

\* NOT NULL and REFERENCES constraints of public.doctors.
DoctorConstraints(row) ==
    /\ row.profile_id \in Ids(profiles)
    /\ row.specialization \in Specializations

\* supabase.from('doctors').update(v).eq('id', id) by identity uid.  The rows
\* changed are those the SELECT policies and the USING expression of an
\* UPDATE policy admit; a policy FOR UPDATE with no WITH CHECK applies its
\* USING expression to the new row as well, and a new row that fails it, or
\* a constraint, fails the statement.
UpdateDoctor(uid, id, v) ==
    LET target == {r \in doctors :
                      /\ r.id = id
                      /\ Allowed("doctors", "SELECT", uid, r)
                      /\ Allowed("doctors", "UPDATE", uid, r)}
        new(r) == [r EXCEPT !.specialization = v.specialization,
                            !.profile_id = v.profile_id]
        ok == \A r \in target :
                 DoctorConstraints(new(r)) /\ Allowed("doctors", "UPDATE", uid, new(r))
    IN [error |-> ~ok,
        table |-> IF ok THEN (doctors \ target) \cup {new(r) : r \in target}
                  ELSE doctors]

\* supabase.from('doctors').delete().eq('id', id) by identity uid: the rows
\* deleted are those the SELECT policies and a DELETE policy admit.
DeleteDoctorTargets(uid, id) ==
    {r \in doctors :
        /\ r.id = id
        /\ Allowed("doctors", "SELECT", uid, r)
        /\ Allowed("doctors", "DELETE", uid, r)}

\* supabase.from('profiles').insert(v) by identity uid: "Users can insert
\* their own profile" is checked on the new row, then the constraints.
InsertProfile(uid, v) ==
    LET row == [id |-> gen_random_uuid(profiles), user_id |-> v.user_id,
                full_name |-> FullNameOf(v.user_id), role |-> v.role]
        ok == /\ Allowed("profiles", "INSERT", uid, row)
              /\ ProfileConstraints(row)
    IN [error |-> ~ok,
        table |-> IF ok THEN profiles \cup {row} ELSE profiles]

\* ON DELETE CASCADE / SET NULL without the SET NULL of
\* medical_records.appointment_id.
OnDeleteKeepingAppointmentId(goneProfiles, gonePatients, goneDoctors, goneAppointments, goneRecords) ==
    LET pats == gonePatients \cup {p \in patients : p.profile_id \in Ids(goneProfiles)}
        docs == goneDoctors \cup {d \in doctors : d.profile_id \in Ids(goneProfiles)}
        apps == goneAppointments \cup
                   {a \in appointments :
                       a.patient_id \in Ids(pats) \/ a.doctor_id \in Ids(docs)}
        recs == goneRecords \cup
                   {r \in medical_records :
                       r.patient_id \in Ids(pats) \/ r.doctor_id \in Ids(docs)}
    IN [profiles |-> profiles \ goneProfiles,
        patients |-> patients \ pats,
        doctors |-> doctors \ docs,
        appointments |-> appointments \ apps,
        medical_records |-> medical_records \ recs]

\* The tables after the given rows are deleted: REFERENCES ... ON DELETE
\* CASCADE from patients and doctors to profiles and from appointments and
\* medical_records to patients and doctors; ON DELETE SET NULL from
\* medical_records.appointment_id to appointments.
OnDelete(goneProfiles, gonePatients, goneDoctors, goneAppointments, goneRecords) ==
    LET pats == gonePatients \cup {p \in patients : p.profile_id \in Ids(goneProfiles)}
        docs == goneDoctors \cup {d \in doctors : d.profile_id \in Ids(goneProfiles)}
        apps == goneAppointments \cup
                   {a \in appointments :
                       a.patient_id \in Ids(pats) \/ a.doctor_id \in Ids(docs)}
        recs == goneRecords \cup
                   {r \in medical_records :
                       r.patient_id \in Ids(pats) \/ r.doctor_id \in Ids(docs)}
    IN [profiles |-> profiles \ goneProfiles,
        patients |-> patients \ pats,
        doctors |-> doctors \ docs,
        appointments |-> appointments \ apps,
        medical_records |->
            {IF r.appointment_id \in Ids(apps)
             THEN [r EXCEPT !.appointment_id = NoId] ELSE r :
                r \in medical_records \ recs}]

\* Whether a row of another table references the row (`key` names the
\* referencing column).
Referenced(table, key, id) ==
    IF \E r \in table : r[key] = id THEN "referenced" ELSE NULL

\* The status of the row an insert added (NULL when it added none).
StoredStatus(added) ==
    IF added = {} THEN NULL ELSE (CHOOSE r \in added : TRUE).status

NoWrite == [cmd |-> NULL]
\* What is recorded of an insert, update or delete statement: the role of
\* the identity that sent it ("sql" for the SQL editor, "trigger" for the
\* sign-up trigger), whether the row is the issuer's own (its doctor_id is
\* the issuer's doctors row; for doctors, its profile is the issuer's), the
\* value the statement named (a status, a role, a specialization; NULL:
\* none), what the target row had before (NULL: no such row; for a delete,
\* "referenced" when other rows referenced it), whether the store changed,
\* the value of the row stored or changed (NULL: none) and the notification
\* the page showed for it (NULL: not sent by a page).
WriteRecord(cmd, table, role, own, given, was, changed, stored, shown) ==
    [cmd |-> cmd, table |-> table, role |-> role, own |-> own,
     given |-> given, was |-> was, effect |-> changed, stored |-> stored,
     shown |-> shown]

\* ------------------------------------------------------- initial values
\* useState({patientId: '', doctorId: '', appointmentDate: '',
\* appointmentTime: '', ...}) and resetForm; NoId stands for ''.
EmptyAppointmentForm ==
    [patientId |-> NoId, doctorId |-> NoId,
     appointmentDate |-> NoId, appointmentTime |-> NoId]

\* The application as it opens: the session is being restored
\* (useAuth().loading), no AppLayout is mounted, nothing has happened yet.
LayoutStart ==
    [route |-> "/auth", loading |-> TRUE, effect |-> FALSE,
     event |-> "none", redirect |-> NULL]

\* useState of MedicalRecords: records, appointments, patients, loading,
\* isDialogOpen, recordForm; the calls in flight.
EmptyRecordForm == [patientId |-> NoId, appointmentId |-> NoId]
RecordsPageStart ==
    [records |-> {}, appointments |-> {}, patients |-> {}, loading |-> TRUE,
     isDialogOpen |-> FALSE, recordForm |-> EmptyRecordForm,
     fetches |-> <<>>, dataPending |-> FALSE, lastFetch |-> NULL]

\* useState of Patients and of Doctors: the list, loading, isDialogOpen, the
\* form (NULL: as reset); whether the fetch is in flight.
DirectoryPageStart ==
    [list |-> {}, loading |-> TRUE, isDialogOpen |-> FALSE, form |-> NULL,
     fetching |-> FALSE]

\* ---------------------------------------------------------- store actions
Init ==
    /\ profiles = {}
    /\ patients = {}
    /\ doctors = {}
    /\ appointments = {}
    /\ medical_records = {}
    /\ lastWrite = NoWrite
    /\ authUid = [c \in Clients |-> NoId]
    /\ userProfile = [c \in Clients |-> {}]
    /\ pageAppointments = [c \in Clients |-> <<>>]
    /\ loading = [c \in Clients |-> TRUE]
    /\ fetches = [c \in Clients |-> <<>>]
    /\ doctorOptions = [c \in Clients |-> {}]
    /\ patientOptions = [c \in Clients |-> {}]
    /\ optionsPending = [c \in Clients |-> FALSE]
    /\ toast = [c \in Clients |-> NULL]
    /\ lastFetch = [c \in Clients |-> [outcome |-> NULL, role |-> NULL]]
    /\ searchTerm = [c \in Clients |-> <<>>]
    /\ statusFilter = [c \in Clients |-> "all"]
    /\ isDialogOpen = [c \in Clients |-> FALSE]
    /\ appointmentForm = [c \in Clients |-> EmptyAppointmentForm]
    /\ layout = [c \in Clients |-> LayoutStart]
    /\ recordsPage = [c \in Clients |-> RecordsPageStart]
    /\ patientsPage = [c \in Clients |-> DirectoryPageStart]
    /\ doctorsPage = [c \in Clients |-> DirectoryPageStart]

\* A new identity is created: the INSERT into auth.users fires
\* on_auth_user_created in the same transaction.  When the profile row
\* violates a constraint (a role outside the CHECK list) the trigger raises
\* and the sign-up is rolled back: no identity, no profile.  An identity
\* signs up once (auth.users.id is its primary key).
SignUp(u, metaRole) ==
    /\ ~HasProfile(u)
    /\ LET row == handle_new_user(u, metaRole)
           ok == ProfileConstraints(row)
       IN /\ profiles' = IF ok THEN profiles \cup {row} ELSE profiles
          /\ lastWrite' = WriteRecord("INSERT", "profiles", "trigger", TRUE,
                                      metaRole, NULL, ok,
                                      IF ok THEN row.role ELSE NULL, NULL)
    /\ UNCHANGED <<patients, doctors, appointments, medical_records>>
    /\ UNCHANGED <<pageVars, filterVars>>
    /\ UNCHANGED <<formVars, otherVars>>

\* supabase.from('profiles').update({role}).eq('id', pid) by identity uid.
UpdateProfileRole(uid, pid, newRole) ==
    LET target == {r \in profiles :
                      /\ r.id = pid
                      /\ Allowed("profiles", "SELECT", uid, r)
                      /\ Allowed("profiles", "UPDATE", uid, r)}
    IN /\ newRole \in Roles
       /\ profiles' = (profiles \ target)
                        \cup {[r EXCEPT !.role = newRole] : r \in target}
       /\ UNCHANGED <<patients, doctors, appointments, medical_records, lastWrite>>
       /\ UNCHANGED <<pageVars, filterVars>>
    /\ UNCHANGED <<formVars, otherVars>>

\* Rows entered through the SQL editor: constraints apply, policies do not.
ProvisionPatient(profile_id) ==
    /\ Cardinality(patients) < MaxPatients
    /\ profile_id \in Ids(profiles)
    /\ patients' = patients \cup
          {[id |-> gen_random_uuid(patients), profile_id |-> profile_id]}
    /\ UNCHANGED <<profiles, doctors, appointments, medical_records, lastWrite>>
    /\ UNCHANGED <<pageVars, filterVars>>
    /\ UNCHANGED <<formVars, otherVars>>

ProvisionDoctor(profile_id) ==
    /\ Cardinality(doctors) < MaxDoctors
    /\ profile_id \in Ids(profiles)
    /\ doctors' = doctors \cup
          {[id |-> gen_random_uuid(doctors), profile_id |-> profile_id,
            specialization |-> "General Practice"]}
    /\ UNCHANGED <<profiles, patients, appointments, medical_records, lastWrite>>
    /\ UNCHANGED <<pageVars, filterVars>>
    /\ UNCHANGED <<formVars, otherVars>>

ProvisionAppointment(dates, times, statuses, reasons) ==
    /\ Cardinality(appointments) < MaxAppointments
    /\ \E pid \in Ids(patients), did \in Ids(doctors), d \in dates, t \in times,
          st \in statuses, rs \in reasons :
          LET row == NewAppointment(
                        [patient_id |-> pid, doctor_id |-> did,
                         appointment_date |-> d, appointment_time |-> t,
                         status |-> st, reason |-> rs])
          IN /\ AppointmentConstraints(row)
             /\ appointments' = appointments \cup {row}
             /\ lastWrite' = WriteRecord("INSERT", "appointments", "sql", FALSE,
                                         st, NULL, TRUE,
                                         StoredStatus(appointments' \ appointments),
                                         NULL)
    /\ UNCHANGED <<profiles, patients, doctors, medical_records>>
    /\ UNCHANGED <<pageVars, filterVars>>
    /\ UNCHANGED <<formVars, otherVars>>

ProvisionRecord ==
    /\ Cardinality(medical_records) < MaxRecords
    /\ \E pid \in Ids(patients), did \in Ids(doctors),
          aid \in Ids(appointments) \cup {NoId} :
          LET row == NewRecord([patient_id |-> pid, doctor_id |-> did,
                                appointment_id |-> aid])
          IN /\ RecordConstraints(row)
             /\ medical_records' = medical_records \cup {row}
             /\ lastWrite' = WriteRecord("INSERT", "medical_records", "sql", FALSE,
                                         NULL, NULL, TRUE, NULL, NULL)
    /\ UNCHANGED <<profiles, patients, doctors, appointments>>
    /\ UNCHANGED <<pageVars, filterVars>>
    /\ UNCHANGED <<formVars, otherVars>>

\* Any identity may send any insert or update to the API.
ApiInsertAppointment(uid) ==
    /\ Cardinality(appointments) < MaxAppointments
    /\ \E pid \in Ids(patients), did \in Ids(doctors), st \in {NULL, "scheduled"} :
          LET res == InsertAppointment(uid,
                        [patient_id |-> pid, doctor_id |-> did,
                         appointment_date |-> 1, appointment_time |-> 1,
                         status |-> st, reason |-> {}])
          IN /\ appointments' = res.table
             /\ lastWrite' = WriteRecord("INSERT", "appointments", RoleOfUser(uid),
                                         did \in OwnDoctorIds(uid), st, NULL,
                                         res.table # appointments,
                                         StoredStatus(res.table \ appointments),
                                         NULL)
    /\ UNCHANGED <<profiles, patients, doctors, medical_records>>
    /\ UNCHANGED <<pageVars, filterVars>>
    /\ UNCHANGED <<formVars, otherVars>>

ApiUpdateAppointment(uid) ==
    \E a \in appointments, st \in Statuses :
        LET res == UpdateAppointmentStatus(uid, a.id, st)
        IN /\ a.status # st
           /\ appointments' = res.table
           /\ lastWrite' = WriteRecord("UPDATE", "appointments", RoleOfUser(uid),
                                       a.doctor_id \in OwnDoctorIds(uid), st,
                                       a.status, res.table # appointments,
                                       RowById(res.table, a.id).status, NULL)
           /\ UNCHANGED <<profiles, patients, doctors, medical_records>>
           /\ UNCHANGED <<pageVars, filterVars>>
    /\ UNCHANGED <<formVars, otherVars>>

ApiInsertRecord(uid) ==
    /\ Cardinality(medical_records) < MaxRecords
    /\ \E pid \in Ids(patients), did \in Ids(doctors) :
          LET res == InsertRecord(uid, [patient_id |-> pid, doctor_id |-> did,
                                        appointment_id |-> NoId])
          IN /\ medical_records' = res.table
             /\ lastWrite' = WriteRecord("INSERT", "medical_records", RoleOfUser(uid),
                                         did \in OwnDoctorIds(uid), NULL, NULL,
                                         res.table # medical_records, NULL, NULL)
    /\ UNCHANGED <<profiles, patients, doctors, appointments>>
    /\ UNCHANGED <<pageVars, filterVars>>
    /\ UNCHANGED <<formVars, otherVars>>

\* An identity inserts a profiles row for itself or for another identity.
ApiInsertProfile(uid) ==
    /\ HasProfile(uid)
    /\ \E target \in Users, role \in Roles :
          LET res == InsertProfile(uid, [user_id |-> target, role |-> role])
          IN /\ profiles' = res.table
             /\ lastWrite' = WriteRecord("INSERT", "profiles", RoleOfUser(uid),
                                         target = uid, role, NULL,
                                         res.table # profiles, NULL, NULL)
    /\ UNCHANGED <<patients, doctors, appointments, medical_records>>
    /\ UNCHANGED <<pageVars, filterVars, formVars, otherVars>>

\* An identity sends an update of a doctors row: another specialization,
\* another owning profile, or both.
ApiUpdateDoctor(uid) ==
    /\ HasProfile(uid)
    /\ \E d \in doctors, sp \in Specializations, pid \in Ids(profiles) :
          LET res == UpdateDoctor(uid, d.id, [specialization |-> sp, profile_id |-> pid])
          IN /\ (sp # d.specialization \/ pid # d.profile_id)
             /\ doctors' = res.table
             /\ lastWrite' = WriteRecord("UPDATE", "doctors", RoleOfUser(uid),
                                         d.id \in OwnDoctorIds(uid), sp,
                                         d.specialization, res.table # doctors,
                                         RowById(res.table, d.id).specialization,
                                         NULL)
    /\ UNCHANGED <<profiles, patients, appointments, medical_records>>
    /\ UNCHANGED <<pageVars, filterVars, formVars, otherVars>>

\* An identity sends a delete of a doctors row.
ApiDeleteDoctor(uid) ==
    /\ HasProfile(uid)
    /\ \E d \in doctors :
          LET res == OnDelete({}, {}, DeleteDoctorTargets(uid, d.id), {}, {})
          IN /\ doctors' = res.doctors
             /\ appointments' = res.appointments
             /\ medical_records' = res.medical_records
             /\ lastWrite' = WriteRecord("DELETE", "doctors", RoleOfUser(uid),
                                         d.id \in OwnDoctorIds(uid), NULL,
                                         Referenced(appointments, "doctor_id", d.id),
                                         res.doctors # doctors, NULL, NULL)
    /\ UNCHANGED <<profiles, patients>>
    /\ UNCHANGED <<pageVars, filterVars, formVars, otherVars>>

\* Rows deleted through the dashboard or the SQL editor: the referential
\* actions apply, the policies do not.
SqlDelete(table, goneProfiles, gonePatients, goneDoctors, goneAppointments, goneRecords, was) ==
    LET res == OnDelete(goneProfiles, gonePatients, goneDoctors, goneAppointments, goneRecords)
    IN /\ profiles' = res.profiles
       /\ patients' = res.patients
       /\ doctors' = res.doctors
       /\ appointments' = res.appointments
       /\ medical_records' = res.medical_records
       /\ lastWrite' = WriteRecord("DELETE", table, "sql", FALSE, NULL, was,
                                   TRUE, NULL, NULL)
       /\ UNCHANGED <<pageVars, filterVars, formVars, otherVars>>

\* Deleting an identity deletes its profile (profiles.user_id REFERENCES
\* auth.users ON DELETE CASCADE).
DeleteUser(u) ==
    /\ HasProfile(u)
    /\ SqlDelete("profiles", {ProfileOfUser(u)}, {}, {}, {}, {},
                 Referenced(patients \cup doctors, "profile_id", ProfileOfUser(u).id))

DeletePatient(id) ==
    /\ id \in Ids(patients)
    /\ SqlDelete("patients", {}, {RowById(patients, id)}, {}, {}, {},
                 Referenced(appointments \cup medical_records, "patient_id", id))

DeleteDoctor(id) ==
    /\ id \in Ids(doctors)
    /\ SqlDelete("doctors", {}, {}, {RowById(doctors, id)}, {}, {},
                 Referenced(appointments \cup medical_records, "doctor_id", id))

DeleteAppointment(id) ==
    /\ id \in Ids(appointments)
    /\ SqlDelete("appointments", {}, {}, {}, {RowById(appointments, id)}, {},
                 Referenced(medical_records, "appointment_id", id))

DeleteRecord(id) ==
    /\ id \in Ids(medical_records)
    /\ SqlDelete("medical_records", {}, {}, {}, {}, {RowById(medical_records, id)}, NULL)

Next ==
    \/ \E u \in Users, r \in Roles \cup {NULL} : SignUp(u, r)
    \/ \E u \in Users, pid \in Ids(profiles), r \in Roles : UpdateProfileRole(u, pid, r)
    \/ \E pid \in Ids(profiles) : ProvisionPatient(pid)
    \/ \E pid \in Ids(profiles) : ProvisionDoctor(pid)
    \/ ProvisionAppointment({1}, {1}, Statuses \cup {NULL}, {{}})
    \/ ProvisionRecord
    \/ \E u \in Users : ApiInsertAppointment(u)
    \/ \E u \in Users : ApiUpdateAppointment(u)
    \/ \E u \in Users : ApiInsertRecord(u)

Spec == Init /\ [][Next]_vars

\* The doctors directory under its policies.
DoctorsNext ==
    \/ \E u \in Users, r \in Roles \cup {NULL} : SignUp(u, r)
    \/ \E u \in Users, pid \in Ids(profiles), r \in Roles : UpdateProfileRole(u, pid, r)
    \/ \E pid \in Ids(profiles) : ProvisionDoctor(pid)
    \/ \E u \in Users : ApiUpdateDoctor(u)
    \/ \E u \in Users : ApiDeleteDoctor(u)

DoctorsSpec == Init /\ [][DoctorsNext]_vars

\* The schema: sign-up, inserts and deletes under the constraints and the
\* referential actions of the CREATE TABLE statements.
MetaRoles == Roles \cup {NULL, "nurse"}
SchemaNext ==
    \/ \E u \in Users, r \in MetaRoles : SignUp(u, r)
    \/ \E u \in Users, pid \in Ids(profiles), r \in Roles : UpdateProfileRole(u, pid, r)
    \/ \E u \in Users : ApiInsertProfile(u)
    \/ \E pid \in Ids(profiles) : ProvisionPatient(pid)
    \/ \E pid \in Ids(profiles) : ProvisionDoctor(pid)
    \/ ProvisionAppointment({1}, {1}, {NULL}, {{}})
    \/ ProvisionRecord
    \/ \E u \in Users : DeleteUser(u)
    \/ \E id \in 1..MaxPatients : DeletePatient(id)
    \/ \E id \in 1..MaxDoctors : DeleteDoctor(id)
    \/ \E id \in 1..MaxAppointments : DeleteAppointment(id)
    \/ \E id \in 1..MaxRecords : DeleteRecord(id)

SchemaSpec == Init /\ [][SchemaNext]_vars

\* ------------------------------------------------------------ text values
\* A string is a sequence of one-character strings.
UpperChars == <<"A", "B", "C", "D", "E", "F", "G", "H", "I", "J", "K", "L", "M",
                "N", "O", "P", "Q", "R", "S", "T", "U", "V", "W", "X", "Y", "Z">>
LowerChars == <<"a", "b", "c", "d", "e", "f", "g", "h", "i", "j", "k", "l", "m",
                "n", "o", "p", "q", "r", "s", "t", "u", "v", "w", "x", "y", "z">>
LowerOf(ch) ==
    IF \E i \in DOMAIN UpperChars : UpperChars[i] = ch
    THEN LowerChars[CHOOSE i \in DOMAIN UpperChars : UpperChars[i] = ch]
    ELSE ch
\* String.prototype.toLowerCase
toLowerCase(str) == [i \in 1..Len(str) |-> LowerOf(str[i])]
\* String.prototype.includes
includes(str, sub) ==
    \E i \in 0..(Len(str) - Len(sub)) : SubSeq(str, i + 1, i + Len(sub)) = sub

\* ------------------------------------------------- Appointments: the reads
\* The joined row of select(*, patients!inner(profiles!inner(full_name)),
\* doctors!inner(profiles!inner(full_name), specialization)).
JoinedAppointment(a) ==
    [id |-> a.id,
     appointment_date |-> a.appointment_date,
     appointment_time |-> a.appointment_time,
     status |-> a.status,
     reason |-> a.reason,
     patient_name |-> (CHOOSE prof \in profiles :
                          prof.id = RowById(patients, a.patient_id).profile_id).full_name,
     doctor_name |-> (CHOOSE prof \in profiles :
                          prof.id = RowById(doctors, a.doctor_id).profile_id).full_name]

\* !inner: an appointment is returned only with an embedded patients row and
\* doctors row, each with an embedded profiles row, that the caller can read.
InnerJoined(uid, a) ==
    /\ \E p \in VisiblePatients(uid) :
          p.id = a.patient_id /\ \E prof \in VisibleProfiles(uid) : prof.id = p.profile_id
    /\ \E d \in VisibleDoctors(uid) :
          d.id = a.doctor_id /\ \E prof \in VisibleProfiles(uid) : prof.id = d.profile_id

NoFilter == [col |-> NULL, val |-> NoId]
\* query.eq(col, val)
PassesEq(filter, a) ==
    CASE filter.col = "doctor_id" -> a.doctor_id = filter.val
      [] filter.col = "patient_id" -> a.patient_id = filter.val
      [] OTHER -> TRUE

\* The ordering with the two keys exchanged.
InOrderTimeFirst(r1, r2) ==
    \/ r1.appointment_time < r2.appointment_time
    \/ /\ r1.appointment_time = r2.appointment_time
       /\ r1.appointment_date <= r2.appointment_date

\* .order('appointment_date', asc).order('appointment_time', asc)
InOrder(r1, r2) ==
    \/ r1.appointment_date < r2.appointment_date
    \/ /\ r1.appointment_date = r2.appointment_date
       /\ r1.appointment_time <= r2.appointment_time

\* The answers the store may give for a set of rows under that ordering
\* (rows equal in date and time come in either order).
OrderedAnswers(rows) ==
    {seq \in [1..Cardinality(rows) -> rows] :
        \A i, j \in 1..Cardinality(rows) :
            i < j => (seq[i] # seq[j] /\ InOrder(seq[i], seq[j]))}

\* The rows the appointment list query returns to identity uid.
SelectAppointments(uid, filter) ==
    {JoinedAppointment(a) :
        a \in {r \in VisibleAppointments(uid) : PassesEq(filter, r) /\ InnerJoined(uid, r)}}

\* .from(table).select('id').eq('profile_id', pid).single(): the id when
\* exactly one row comes back, no data otherwise.
SingleId(rows, pid) ==
    LET hit == {r \in rows : r.profile_id = pid}
    IN IF Cardinality(hit) = 1 THEN (CHOOSE r \in hit : TRUE).id ELSE NoId

\* userProfile?.role and userProfile?.id as a render's closure sees them.
ProfileRole(c) ==
    IF userProfile[c] = {} THEN NULL ELSE (CHOOSE p \in userProfile[c] : TRUE).role
ProfileId(c) ==
    IF userProfile[c] = {} THEN NoId ELSE (CHOOSE p \in userProfile[c] : TRUE).id

\* fetchAppointments up to its first await: setLoading(true); the call keeps
\* the role and profile id of the render that made it.
StartFetch(role, pid) ==
    [role |-> role, profile_id |-> pid,
     stage |-> IF role \in {"doctor", "patient"} THEN "lookup" ELSE "query",
     filter |-> NoFilter]

RemoveAt(seq, i) == SubSeq(seq, 1, i - 1) \o SubSeq(seq, i + 1, Len(seq))

\* ----------------------------------------------------------- page actions
\* A session is established and the Appointments page mounts; the profile
\* is not resolved yet.  The mount effect calls fetchAppointments.
SignIn(c, u) ==
    /\ authUid[c] = NoId
    /\ HasProfile(u)
    /\ Len(fetches[c]) < MaxInFlight
    /\ authUid' = [authUid EXCEPT ![c] = u]
    /\ loading' = [loading EXCEPT ![c] = TRUE]
    /\ fetches' = [fetches EXCEPT ![c] = Append(@, StartFetch(ProfileRole(c), ProfileId(c)))]
    /\ UNCHANGED <<storeVars, lastWrite, userProfile, pageAppointments,
                   doctorOptions, patientOptions, optionsPending, toast, lastFetch,
                   filterVars>>
    /\ layout' = [layout EXCEPT ![c].route = "/appointments",
                                ![c].loading = FALSE]
    /\ UNCHANGED <<formVars, recordsPage, patientsPage, doctorsPage>>

\* The auth context delivers the profile of the session's identity; the
\* effect on [userProfile] calls fetchAppointments and, for an admin,
\* fetchDoctorsAndPatients.
ProfileChange(c) ==
    /\ authUid[c] # NoId
    /\ layout[c].route = "/appointments"
    /\ HasProfile(authUid[c])
    /\ userProfile[c] # {ProfileOfUser(authUid[c])}
    /\ Len(fetches[c]) < MaxInFlight
    /\ LET prof == ProfileOfUser(authUid[c])
       IN /\ userProfile' = [userProfile EXCEPT ![c] = {prof}]
          /\ loading' = [loading EXCEPT ![c] = TRUE]
          /\ fetches' = [fetches EXCEPT ![c] = Append(@, StartFetch(prof.role, prof.id))]
          /\ optionsPending' = [optionsPending EXCEPT ![c] = @ \/ prof.role = "admin"]
    /\ UNCHANGED <<storeVars, lastWrite, authUid, pageAppointments,
                   doctorOptions, patientOptions, toast, lastFetch, filterVars>>
    /\ UNCHANGED <<formVars, otherVars>>

\* fetchAppointments, lines 82-102: the doctors / patients row of the
\* viewer is looked up; the filter is added only when the lookup has data.
FetchLookup(c, i) ==
    /\ i \in DOMAIN fetches[c]
    /\ fetches[c][i].stage = "lookup"
    /\ LET f == fetches[c][i]
           id == IF f.role = "doctor"
                 THEN SingleId(VisibleDoctors(authUid[c]), f.profile_id)
                 ELSE SingleId(VisiblePatients(authUid[c]), f.profile_id)
           col == IF f.role = "doctor" THEN "doctor_id" ELSE "patient_id"
       IN fetches' = [fetches EXCEPT ![c][i] =
                         [f EXCEPT !.stage = "query",
                                   !.filter = IF id = NoId THEN NoFilter
                                              ELSE [col |-> col, val |-> id]]]
    /\ UNCHANGED <<storeVars, lastWrite, authUid, userProfile, pageAppointments,
                   loading, doctorOptions, patientOptions, optionsPending, toast,
                   lastFetch, filterVars>>
    /\ UNCHANGED <<formVars, otherVars>>

\* fetchAppointments, lines 104-112: the list query is answered;
\* setAppointments(data); finally setLoading(false).
FetchComplete(c, i) ==
    /\ i \in DOMAIN fetches[c]
    /\ fetches[c][i].stage = "query"
    /\ \E data \in OrderedAnswers(SelectAppointments(authUid[c], fetches[c][i].filter)) :
          pageAppointments' = [pageAppointments EXCEPT ![c] = data]
    /\ loading' = [loading EXCEPT ![c] = FALSE]
    /\ lastFetch' = [lastFetch EXCEPT ![c] =
                        [outcome |-> "ok", role |-> fetches[c][i].role]]
    /\ fetches' = [fetches EXCEPT ![c] = RemoveAt(@, i)]
    /\ UNCHANGED <<storeVars, lastWrite, authUid, userProfile,
                   doctorOptions, patientOptions, optionsPending, toast, filterVars>>
    /\ UNCHANGED <<formVars, otherVars>>

\* fetchAppointments failing, without the finally block.
FetchFailKeepingLoading(c, i) ==
    /\ i \in DOMAIN fetches[c]
    /\ fetches[c][i].stage = "query"
    /\ toast' = [toast EXCEPT ![c] = "Failed to load appointments"]
    /\ loading' = loading
    /\ lastFetch' = [lastFetch EXCEPT ![c] =
                        [outcome |-> "failed", role |-> fetches[c][i].role]]
    /\ fetches' = [fetches EXCEPT ![c] = RemoveAt(@, i)]
    /\ UNCHANGED <<storeVars, lastWrite, authUid, userProfile, pageAppointments,
                   doctorOptions, patientOptions, optionsPending, filterVars>>
    /\ UNCHANGED <<formVars, otherVars>>

\* fetchAppointments, lines 105-112: the list query fails (network, store);
\* the error is thrown, caught and shown; finally setLoading(false).
FetchFail(c, i) ==
    /\ i \in DOMAIN fetches[c]
    /\ fetches[c][i].stage = "query"
    /\ toast' = [toast EXCEPT ![c] = "Failed to load appointments"]
    /\ loading' = [loading EXCEPT ![c] = FALSE]
    /\ lastFetch' = [lastFetch EXCEPT ![c] =
                        [outcome |-> "failed", role |-> fetches[c][i].role]]
    /\ fetches' = [fetches EXCEPT ![c] = RemoveAt(@, i)]
    /\ UNCHANGED <<storeVars, lastWrite, authUid, userProfile, pageAppointments,
                   doctorOptions, patientOptions, optionsPending, filterVars>>
    /\ UNCHANGED <<formVars, otherVars>>

\* fetchDoctorsAndPatients: both option lists, each inner-joined with the
\* profiles row of the doctor / patient.
FetchDoctorsAndPatients(c) ==
    /\ optionsPending[c]
    /\ optionsPending' = [optionsPending EXCEPT ![c] = FALSE]
    /\ doctorOptions' = [doctorOptions EXCEPT ![c] =
          {d.id : d \in {r \in VisibleDoctors(authUid[c]) :
              \E prof \in VisibleProfiles(authUid[c]) : prof.id = r.profile_id}}]
    /\ patientOptions' = [patientOptions EXCEPT ![c] =
          {p.id : p \in {r \in VisiblePatients(authUid[c]) :
              \E prof \in VisibleProfiles(authUid[c]) : prof.id = r.profile_id}}]
    /\ UNCHANGED <<storeVars, lastWrite, authUid, userProfile, pageAppointments,
                   loading, fetches, toast, lastFetch, filterVars>>
    /\ UNCHANGED <<formVars, otherVars>>

\* fetchDoctorsAndPatients when the two reads fail: the client resolves
\* with data null and an error the function does not look at, so both
\* option lists become [] and nothing is shown.
FetchDoctorsAndPatientsFail(c) ==
    /\ optionsPending[c]
    /\ optionsPending' = [optionsPending EXCEPT ![c] = FALSE]
    /\ doctorOptions' = [doctorOptions EXCEPT ![c] = {}]
    /\ patientOptions' = [patientOptions EXCEPT ![c] = {}]
    /\ UNCHANGED <<storeVars, lastWrite, authUid, userProfile, pageAppointments,
                   loading, fetches, toast, lastFetch, filterVars>>
    /\ UNCHANGED <<formVars, otherVars>>

\* The Schedule Appointment button: resetForm, then the dialog opens.
OpenDialog(c) ==
    /\ authUid[c] # NoId
    /\ ~isDialogOpen[c]
    /\ isDialogOpen' = [isDialogOpen EXCEPT ![c] = TRUE]
    /\ appointmentForm' = [appointmentForm EXCEPT ![c] = EmptyAppointmentForm]
    /\ UNCHANGED <<storeVars, lastWrite, pageVars, filterVars, otherVars>>

\* The user fills in the booking form: the patient and doctor are what the
\* two Selects offer ('' when nothing was chosen; the patient Select is not
\* rendered for a patient); date and time are required inputs.
EditForm(c, patientId, doctorId, date, time) ==
    /\ isDialogOpen[c]
    /\ patientId \in (IF ProfileRole(c) = "patient" THEN {} ELSE patientOptions[c])
                        \cup {NoId}
    /\ doctorId \in doctorOptions[c] \cup {NoId}
    /\ appointmentForm[c] = EmptyAppointmentForm
    /\ appointmentForm' = [appointmentForm EXCEPT ![c] =
          [patientId |-> patientId, doctorId |-> doctorId,
           appointmentDate |-> date, appointmentTime |-> time]]
    /\ UNCHANGED <<storeVars, lastWrite, pageVars, filterVars, isDialogOpen,
                   otherVars>>

\* The booking form is submitted (handleSubmit).  The two requests of the
\* handler are answered in one step.
HandleSubmit(c) ==
    /\ authUid[c] # NoId
    /\ isDialogOpen[c]
    /\ appointmentForm[c].appointmentDate # NoId
    /\ appointmentForm[c].appointmentTime # NoId
    /\ Cardinality(appointments) < MaxAppointments
    /\ Len(fetches[c]) < MaxInFlight
    /\ LET own == SingleId(VisiblePatients(authUid[c]), ProfileId(c))
           patientId == IF ProfileRole(c) = "patient" /\ own # NoId
                        THEN own ELSE appointmentForm[c].patientId
           v == [patient_id |-> patientId,
                 doctor_id |-> appointmentForm[c].doctorId,
                 appointment_date |-> appointmentForm[c].appointmentDate,
                 appointment_time |-> appointmentForm[c].appointmentTime,
                 status |-> "scheduled", reason |-> {<<>>}]
           res == InsertAppointment(authUid[c], v)
           shown == IF res.error THEN "Failed to schedule appointment"
                    ELSE "Appointment scheduled successfully"
       IN /\ appointments' = res.table
          /\ toast' = [toast EXCEPT ![c] = shown]
          /\ lastWrite' = WriteRecord("INSERT", "appointments",
                             RoleOfUser(authUid[c]),
                             v.doctor_id \in OwnDoctorIds(authUid[c]),
                             v.status, NULL, res.table # appointments,
                             StoredStatus(res.table \ appointments), shown)
          /\ IF res.error
             THEN UNCHANGED <<loading, fetches, formVars>>
             ELSE /\ isDialogOpen' = [isDialogOpen EXCEPT ![c] = FALSE]
                  /\ appointmentForm' = [appointmentForm EXCEPT ![c] =
                        EmptyAppointmentForm]
                  /\ loading' = [loading EXCEPT ![c] = TRUE]
                  /\ fetches' = [fetches EXCEPT ![c] =
                        Append(@, StartFetch(ProfileRole(c), ProfileId(c)))]
    /\ UNCHANGED <<profiles, patients, doctors, medical_records, authUid,
                   userProfile, pageAppointments, doctorOptions, patientOptions,
                   optionsPending, lastFetch, filterVars>>
    /\ UNCHANGED otherVars

\* The Complete / Cancel button of row i of the rendered list
\* (updateAppointmentStatus).  The buttons are rendered for a doctor or an
\* admin, on rows the list holds as scheduled, while the page is not loading.
ClickStatus(c, i, newStatus) ==
    /\ authUid[c] # NoId
    /\ ~loading[c]
    /\ ProfileRole(c) \in {"doctor", "admin"}
    /\ i \in DOMAIN pageAppointments[c]
    /\ pageAppointments[c][i].status = "scheduled"
    /\ newStatus \in {"completed", "cancelled"}
    /\ Len(fetches[c]) < MaxInFlight
    /\ LET id == pageAppointments[c][i].id
           row == RowById(appointments, id)
           res == UpdateAppointmentStatus(authUid[c], id, newStatus)
           shown == IF res.error THEN "Failed to update appointment"
                    ELSE IF newStatus = "completed"
                         THEN "Appointment completed successfully"
                         ELSE "Appointment cancelled successfully"
       IN /\ appointments' = res.table
          /\ toast' = [toast EXCEPT ![c] = shown]
          /\ lastWrite' = WriteRecord("UPDATE", "appointments",
                             RoleOfUser(authUid[c]),
                             row.doctor_id \in OwnDoctorIds(authUid[c]),
                             newStatus, row.status, res.table # appointments,
                             RowById(res.table, id).status, shown)
          /\ IF res.error
             THEN UNCHANGED <<loading, fetches>>
             ELSE /\ loading' = [loading EXCEPT ![c] = TRUE]
                  /\ fetches' = [fetches EXCEPT ![c] =
                        Append(@, StartFetch(ProfileRole(c), ProfileId(c)))]
    /\ UNCHANGED <<profiles, patients, doctors, medical_records, authUid,
                   userProfile, pageAppointments, doctorOptions, patientOptions,
                   optionsPending, lastFetch, filterVars>>
    /\ UNCHANGED <<formVars, otherVars>>

PageNext ==
    \/ \E u \in Users, r \in Roles \cup {NULL} : SignUp(u, r)
    \/ \E pid \in Ids(profiles) : ProvisionPatient(pid)
    \/ \E pid \in Ids(profiles) : ProvisionDoctor(pid)
    \/ ProvisionAppointment({1}, {1}, {NULL, "completed"}, {{}})
    \/ \E c \in Clients, u \in Users : SignIn(c, u)
    \/ \E c \in Clients : ProfileChange(c)
    \/ \E c \in Clients, i \in 1..MaxInFlight : FetchLookup(c, i)
    \/ \E c \in Clients, i \in 1..MaxInFlight : FetchComplete(c, i)
    \/ \E c \in Clients, i \in 1..MaxInFlight : FetchFail(c, i)
    \/ \E c \in Clients : FetchDoctorsAndPatients(c)
    \/ \E c \in Clients : FetchDoctorsAndPatientsFail(c)
    \/ \E c \in Clients : OpenDialog(c)
    \/ \E c \in Clients, p \in Ids(patients) \cup {NoId}, d \in Ids(doctors) \cup {NoId} :
          EditForm(c, p, d, 1, 1)
    \/ \E c \in Clients : HandleSubmit(c)
    \/ \E c \in Clients, i \in 1..MaxAppointments, st \in Statuses : ClickStatus(c, i, st)

PageSpec == Init /\ [][PageNext]_vars

\* The list query and its ordering: appointments of every date and time.
OrderNext ==
    \/ \E u \in Users, r \in Roles \cup {NULL} : SignUp(u, r)
    \/ \E pid \in Ids(profiles) : ProvisionPatient(pid)
    \/ \E pid \in Ids(profiles) : ProvisionDoctor(pid)
    \/ ProvisionAppointment(Dates, Times, {NULL, "completed"}, {{}})
    \/ \E c \in Clients, u \in Users : SignIn(c, u)
    \/ \E c \in Clients : ProfileChange(c)
    \/ \E c \in Clients, i \in 1..MaxInFlight : FetchLookup(c, i)
    \/ \E c \in Clients, i \in 1..MaxInFlight : FetchComplete(c, i)
    \/ \E c \in Clients, i \in 1..MaxInFlight : FetchFail(c, i)

OrderSpec == Init /\ [][OrderNext]_vars

\* The list query with neither row-level security nor the embedded joins.
SelectRecordsUnrestricted(uid, filter) ==
    {r \in medical_records : PassesEq(filter, r)}

\* ------------------------------------------------ MedicalRecords: the page
\* The rows the medical record list query returns to identity uid (the
\* order, record_date descending, is not modelled: the page state holds the
\* set of the rows).
SelectRecords(uid, filter) ==
    {r \in VisibleRecords(uid) : PassesEq(filter, r) /\ InnerJoined(uid, r)}

\* fetchDoctorData: the appointments of the doctors row `did` that come back
\* with their patients row and its profiles row embedded (!inner).
DoctorAppointments(uid, did) ==
    {a \in VisibleAppointments(uid) :
        /\ a.doctor_id = did
        /\ \E p \in VisiblePatients(uid) :
              /\ p.id = a.patient_id
              /\ \E prof \in VisibleProfiles(uid) : prof.id = p.profile_id}

\* The patient's empty state ('No medical records yet') is what the page
\* renders.
EmptyState(c) ==
    /\ ProfileRole(c) = "patient"
    /\ recordsPage[c].records = {}
    /\ ~recordsPage[c].loading

\* The session is established and the MedicalRecords page mounts; the
\* profile is not resolved yet.  The mount effect calls fetchMedicalRecords.
RecordsOpen(c, u) ==
    /\ authUid[c] = NoId
    /\ HasProfile(u)
    /\ authUid' = [authUid EXCEPT ![c] = u]
    /\ layout' = [layout EXCEPT ![c].route = "/medical-records",
                                ![c].loading = FALSE]
    /\ recordsPage' = [recordsPage EXCEPT
          ![c].loading = TRUE,
          ![c].fetches = Append(@, StartFetch(ProfileRole(c), ProfileId(c)))]
    /\ UNCHANGED <<storeVars, lastWrite, userProfile, pageAppointments, loading,
                   fetches, doctorOptions, patientOptions, optionsPending, toast,
                   lastFetch, filterVars, formVars, patientsPage, doctorsPage>>

\* The auth context delivers the profile; the effect on [userProfile] calls
\* fetchMedicalRecords and, for a doctor, fetchDoctorData.
RecordsProfileChange(c) ==
    /\ authUid[c] # NoId
    /\ layout[c].route = "/medical-records"
    /\ HasProfile(authUid[c])
    /\ userProfile[c] # {ProfileOfUser(authUid[c])}
    /\ Len(recordsPage[c].fetches) < MaxInFlight
    /\ LET prof == ProfileOfUser(authUid[c])
       IN /\ userProfile' = [userProfile EXCEPT ![c] = {prof}]
          /\ recordsPage' = [recordsPage EXCEPT
                ![c].loading = TRUE,
                ![c].fetches = Append(@, StartFetch(prof.role, prof.id)),
                ![c].dataPending = @ \/ prof.role = "doctor"]
    /\ UNCHANGED <<storeVars, lastWrite, authUid, pageAppointments, loading,
                   fetches, doctorOptions, patientOptions, optionsPending, toast,
                   lastFetch, filterVars, formVars, layout, patientsPage,
                   doctorsPage>>

\* fetchMedicalRecords, lines 83-103: the role lookup.
RecordsFetchLookup(c, i) ==
    /\ i \in DOMAIN recordsPage[c].fetches
    /\ recordsPage[c].fetches[i].stage = "lookup"
    /\ LET f == recordsPage[c].fetches[i]
           id == IF f.role = "doctor"
                 THEN SingleId(VisibleDoctors(authUid[c]), f.profile_id)
                 ELSE SingleId(VisiblePatients(authUid[c]), f.profile_id)
           col == IF f.role = "doctor" THEN "doctor_id" ELSE "patient_id"
       IN recordsPage' = [recordsPage EXCEPT ![c].fetches[i] =
                             [f EXCEPT !.stage = "query",
                                       !.filter = IF id = NoId THEN NoFilter
                                                  ELSE [col |-> col, val |-> id]]]
    /\ UNCHANGED <<storeVars, lastWrite, pageVars, filterVars, formVars, layout,
                   patientsPage, doctorsPage>>

\* fetchMedicalRecords, lines 105-113: the list query is answered;
\* setRecords(data); finally setLoading(false).
RecordsFetchComplete(c, i) ==
    /\ i \in DOMAIN recordsPage[c].fetches
    /\ recordsPage[c].fetches[i].stage = "query"
    /\ recordsPage' = [recordsPage EXCEPT
          ![c].records = SelectRecords(authUid[c], recordsPage[c].fetches[i].filter),
          ![c].loading = FALSE,
          ![c].lastFetch = "ok",
          ![c].fetches = RemoveAt(@, i)]
    /\ UNCHANGED <<storeVars, lastWrite, pageVars, filterVars, formVars, layout,
                   patientsPage, doctorsPage>>

\* fetchMedicalRecords, lines 105-113: the list query fails; the error is
\* thrown, caught and shown; finally setLoading(false).
RecordsFetchFail(c, i) ==
    /\ i \in DOMAIN recordsPage[c].fetches
    /\ recordsPage[c].fetches[i].stage = "query"
    /\ toast' = [toast EXCEPT ![c] = "Failed to load medical records"]
    /\ recordsPage' = [recordsPage EXCEPT
          ![c].loading = FALSE,
          ![c].lastFetch = "failed",
          ![c].fetches = RemoveAt(@, i)]
    /\ UNCHANGED <<storeVars, lastWrite, authUid, userProfile, pageAppointments,
                   loading, fetches, doctorOptions, patientOptions, optionsPending,
                   lastFetch, filterVars, formVars, layout, patientsPage,
                   doctorsPage>>

\* fetchDoctorData, answered: with a doctors row found, the completed
\* appointments of the doctor become the appointment options and the
\* patients of all the doctor's appointments the patient options; with none
\* found nothing is set.  The three requests are answered in one step.
FetchDoctorData(c) ==
    /\ recordsPage[c].dataPending
    /\ LET uid == authUid[c]
           did == SingleId(VisibleDoctors(uid), ProfileId(c))
           apps == DoctorAppointments(uid, did)
       IN recordsPage' = [recordsPage EXCEPT
             ![c].dataPending = FALSE,
             ![c].appointments = IF did = NoId THEN @
                                 ELSE {a.id : a \in {b \in apps : b.status = "completed"}},
             ![c].patients = IF did = NoId THEN @
                             ELSE {a.patient_id : a \in apps}]
    /\ UNCHANGED <<storeVars, lastWrite, pageVars, filterVars, formVars, layout,
                   patientsPage, doctorsPage>>

\* fetchDoctorData, the two appointment queries failing at the store: their
\* results carry an error and no data, the error is not looked at, and
\* setAppointments(data || []) and setPatients([]) run.
FetchDoctorDataFail(c) ==
    /\ recordsPage[c].dataPending
    /\ SingleId(VisibleDoctors(authUid[c]), ProfileId(c)) # NoId
    /\ recordsPage' = [recordsPage EXCEPT
          ![c].dataPending = FALSE,
          ![c].appointments = {},
          ![c].patients = {}]
    /\ UNCHANGED <<storeVars, lastWrite, pageVars, filterVars, formVars, layout,
                   patientsPage, doctorsPage>>

\* The "Add Record" button, rendered for a doctor: onClick resetForm, and the
\* dialog opens.
RecordsOpenDialog(c) ==
    /\ authUid[c] # NoId
    /\ layout[c].route = "/medical-records"
    /\ ProfileRole(c) = "doctor"
    /\ ~recordsPage[c].isDialogOpen
    /\ recordsPage' = [recordsPage EXCEPT ![c].isDialogOpen = TRUE,
                                          ![c].recordForm = EmptyRecordForm]
    /\ UNCHANGED <<storeVars, lastWrite, pageVars, filterVars, formVars, layout,
                   patientsPage, doctorsPage>>

\* The patient and the appointment are chosen in the two Selects, each among
\* the options the page holds (the appointment may be left unchosen).
RecordsEditForm(c, patientId, appointmentId) ==
    /\ recordsPage[c].isDialogOpen
    /\ patientId \in recordsPage[c].patients
    /\ appointmentId \in recordsPage[c].appointments \cup {NoId}
    /\ recordsPage[c].recordForm # [patientId |-> patientId,
                                    appointmentId |-> appointmentId]
    /\ recordsPage' = [recordsPage EXCEPT
          ![c].recordForm = [patientId |-> patientId,
                             appointmentId |-> appointmentId]]
    /\ UNCHANGED <<storeVars, lastWrite, pageVars, filterVars, formVars, layout,
                   patientsPage, doctorsPage>>

\* The record form is submitted (handleSubmit of MedicalRecords).  The two
\* requests of the handler are answered in one step.
RecordsHandleSubmit(c) ==
    /\ authUid[c] # NoId
    /\ recordsPage[c].isDialogOpen
    /\ Cardinality(medical_records) < MaxRecords
    /\ Len(recordsPage[c].fetches) < MaxInFlight
    /\ LET uid == authUid[c]
           did == SingleId(VisibleDoctors(uid), ProfileId(c))
           form == recordsPage[c].recordForm
           res == InsertRecord(uid, [patient_id |-> form.patientId,
                                     doctor_id |-> did,
                                     appointment_id |-> form.appointmentId])
           shown == IF did = NoId THEN "Doctor profile not found"
                    ELSE IF res.error THEN "Failed to create medical record"
                    ELSE "Medical record created successfully"
       IN /\ toast' = [toast EXCEPT ![c] = shown]
          /\ IF did = NoId
             THEN UNCHANGED <<medical_records, lastWrite, recordsPage>>
             ELSE /\ medical_records' = res.table
                  /\ lastWrite' = WriteRecord("INSERT", "medical_records",
                                     RoleOfUser(uid), did \in OwnDoctorIds(uid),
                                     NULL, NULL, res.table # medical_records,
                                     NULL, shown)
                  /\ recordsPage' =
                        IF res.error THEN recordsPage
                        ELSE [recordsPage EXCEPT
                                 ![c].isDialogOpen = FALSE,
                                 ![c].recordForm = EmptyRecordForm,
                                 ![c].loading = TRUE,
                                 ![c].fetches = Append(@,
                                     StartFetch(ProfileRole(c), ProfileId(c)))]
    /\ UNCHANGED <<profiles, patients, doctors, appointments, authUid,
                   userProfile, pageAppointments, loading, fetches, doctorOptions,
                   patientOptions, optionsPending, lastFetch, filterVars,
                   formVars, layout, patientsPage, doctorsPage>>

RecordsNext ==
    \/ \E u \in Users, r \in Roles \cup {NULL} : SignUp(u, r)
    \/ \E pid \in Ids(profiles) : ProvisionPatient(pid)
    \/ \E pid \in Ids(profiles) : ProvisionDoctor(pid)
    \/ ProvisionAppointment({1}, {1}, {NULL, "completed"}, {{}})
    \/ ProvisionRecord
    \/ \E u \in Users : ApiInsertRecord(u)
    \/ \E c \in Clients, u \in Users : RecordsOpen(c, u)
    \/ \E c \in Clients : RecordsProfileChange(c)
    \/ \E c \in Clients, i \in 1..MaxInFlight : RecordsFetchLookup(c, i)
    \/ \E c \in Clients, i \in 1..MaxInFlight : RecordsFetchComplete(c, i)
    \/ \E c \in Clients, i \in 1..MaxInFlight : RecordsFetchFail(c, i)
    \/ \E c \in Clients : FetchDoctorData(c)
    \/ \E c \in Clients : FetchDoctorDataFail(c)
    \/ \E c \in Clients : RecordsOpenDialog(c)
    \/ \E c \in Clients, pid \in 1..MaxPatients, aid \in 0..MaxAppointments :
          RecordsEditForm(c, pid, aid)
    \/ \E c \in Clients : RecordsHandleSubmit(c)

RecordsSpec == Init /\ [][RecordsNext]_vars

\* ------------------------------------- MedicalRecords: the form's choices
\* patients.profile_id is not UNIQUE, so one profile can own several
\* patients rows; RecordFormSpec lets the store hold MaxFormPatients of them.
MaxFormPatients == 2

ProvisionFormPatient(profile_id) ==
    /\ Cardinality(patients) < MaxFormPatients
    /\ profile_id \in Ids(profiles)
    /\ patients' = patients \cup
          {[id |-> gen_random_uuid(patients), profile_id |-> profile_id]}
    /\ UNCHANGED <<profiles, doctors, appointments, medical_records, lastWrite>>
    /\ UNCHANGED <<pageVars, filterVars>>
    /\ UNCHANGED <<formVars, otherVars>>

\* A doctor on the MedicalRecords page with the record form, over a store
\* that holds up to MaxFormPatients patients rows.
RecordFormNext ==
    \/ \E u \in Users : SignUp(u, "doctor")
    \/ \E pid \in Ids(profiles) : ProvisionFormPatient(pid)
    \/ \E pid \in Ids(profiles) : ProvisionDoctor(pid)
    \/ ProvisionAppointment({1}, {1}, {"completed"}, {{}})
    \/ \E c \in Clients, u \in Users : RecordsOpen(c, u)
    \/ \E c \in Clients : RecordsProfileChange(c)
    \/ \E c \in Clients, i \in 1..MaxInFlight : RecordsFetchLookup(c, i)
    \/ \E c \in Clients, i \in 1..MaxInFlight : RecordsFetchComplete(c, i)
    \/ \E c \in Clients : FetchDoctorData(c)
    \/ \E c \in Clients : RecordsOpenDialog(c)
    \/ \E c \in Clients, pid \in 1..MaxFormPatients, aid \in 0..MaxAppointments :
          RecordsEditForm(c, pid, aid)
    \/ \E c \in Clients : RecordsHandleSubmit(c)

RecordFormSpec == Init /\ [][RecordFormNext]_vars

\* ------------------------------------------- Patients and Doctors pages
\* Values typed into the fullName field of the Add Patient / Add Doctor
\* form; NULL is the form as resetForm leaves it, every field ''.
FormNames == {"Ann"}

\* handleSubmit that also clears the list and marks it as loading.
SubmittedPageClearingList(page) ==
    [page EXCEPT !.isDialogOpen = FALSE, !.form = NULL, !.list = {},
                 !.loading = TRUE]

\* handleSubmit of Patients and of Doctors, as far as the page's own state
\* goes: setIsDialogOpen(false); resetForm().
SubmittedPage(page) == [page EXCEPT !.isDialogOpen = FALSE, !.form = NULL]

PatientsInfo ==
    "Patient registration requires proper user creation flow. Please use the authentication system to create new users."
DoctorsInfo ==
    "Doctor registration requires proper user creation flow. Please use the authentication system to create new doctor accounts."

\* from('patients').select('*, profiles!inner(...)') as uid.
SelectPatients(uid) ==
    {p \in VisiblePatients(uid) :
        \E prof \in VisibleProfiles(uid) : prof.id = p.profile_id}

\* from('doctors').select('*, profiles!inner(...)') as uid.
SelectDoctors(uid) ==
    {d \in VisibleDoctors(uid) :
        \E prof \in VisibleProfiles(uid) : prof.id = d.profile_id}

\* The session is established and the Patients page mounts: the mount
\* effect calls fetchPatients.
PatientsOpen(c, u) ==
    /\ authUid[c] = NoId
    /\ HasProfile(u)
    /\ authUid' = [authUid EXCEPT ![c] = u]
    /\ layout' = [layout EXCEPT ![c].route = "/patients", ![c].loading = FALSE]
    /\ patientsPage' = [patientsPage EXCEPT ![c].loading = TRUE,
                                            ![c].fetching = TRUE]
    /\ UNCHANGED <<storeVars, lastWrite, userProfile, pageAppointments, loading,
                   fetches, doctorOptions, patientOptions, optionsPending, toast,
                   lastFetch, filterVars, formVars, recordsPage, doctorsPage>>

\* The session is established and the Doctors page mounts: the mount effect
\* calls fetchDoctors.
DoctorsOpen(c, u) ==
    /\ authUid[c] = NoId
    /\ HasProfile(u)
    /\ authUid' = [authUid EXCEPT ![c] = u]
    /\ layout' = [layout EXCEPT ![c].route = "/doctors", ![c].loading = FALSE]
    /\ doctorsPage' = [doctorsPage EXCEPT ![c].loading = TRUE,
                                          ![c].fetching = TRUE]
    /\ UNCHANGED <<storeVars, lastWrite, userProfile, pageAppointments, loading,
                   fetches, doctorOptions, patientOptions, optionsPending, toast,
                   lastFetch, filterVars, formVars, recordsPage, patientsPage>>

\* The auth context delivers the profile; neither page fetches again (the
\* effects have no dependencies).
DirectoryProfileChange(c) ==
    /\ authUid[c] # NoId
    /\ layout[c].route \in {"/patients", "/doctors"}
    /\ HasProfile(authUid[c])
    /\ userProfile[c] # {ProfileOfUser(authUid[c])}
    /\ userProfile' = [userProfile EXCEPT ![c] = {ProfileOfUser(authUid[c])}]
    /\ UNCHANGED <<storeVars, lastWrite, authUid, pageAppointments, loading,
                   fetches, doctorOptions, patientOptions, optionsPending, toast,
                   lastFetch, filterVars, formVars, otherVars>>

\* fetchPatients: the query answers.
FetchPatients(c) ==
    /\ patientsPage[c].fetching
    /\ patientsPage' = [patientsPage EXCEPT
          ![c].list = SelectPatients(authUid[c]),
          ![c].loading = FALSE,
          ![c].fetching = FALSE]
    /\ UNCHANGED <<storeVars, lastWrite, pageVars, filterVars, formVars,
                   layout, recordsPage, doctorsPage>>

\* fetchPatients: the query fails.
FetchPatientsFail(c) ==
    /\ patientsPage[c].fetching
    /\ patientsPage' = [patientsPage EXCEPT ![c].loading = FALSE,
                                            ![c].fetching = FALSE]
    /\ toast' = [toast EXCEPT ![c] = "Failed to load patients"]
    /\ UNCHANGED <<storeVars, lastWrite, authUid, userProfile, pageAppointments,
                   loading, fetches, doctorOptions, patientOptions,
                   optionsPending, lastFetch, filterVars, formVars,
                   layout, recordsPage, doctorsPage>>

\* fetchDoctors: the query answers.
FetchDoctors(c) ==
    /\ doctorsPage[c].fetching
    /\ doctorsPage' = [doctorsPage EXCEPT
          ![c].list = SelectDoctors(authUid[c]),
          ![c].loading = FALSE,
          ![c].fetching = FALSE]
    /\ UNCHANGED <<storeVars, lastWrite, pageVars, filterVars, formVars,
                   layout, recordsPage, patientsPage>>

\* fetchDoctors: the query fails.
FetchDoctorsFail(c) ==
    /\ doctorsPage[c].fetching
    /\ doctorsPage' = [doctorsPage EXCEPT ![c].loading = FALSE,
                                          ![c].fetching = FALSE]
    /\ toast' = [toast EXCEPT ![c] = "Failed to load doctors"]
    /\ UNCHANGED <<storeVars, lastWrite, authUid, userProfile, pageAppointments,
                   loading, fetches, doctorOptions, patientOptions,
                   optionsPending, lastFetch, filterVars, formVars,
                   layout, recordsPage, patientsPage>>

\* The Add Patient button (resetForm, then the dialog opens) or the Add
\* First Patient button of the empty list (the dialog opens); both are
\* rendered for an admin only.
PatientsOpenDialog(c, first) ==
    /\ layout[c].route = "/patients"
    /\ ProfileRole(c) = "admin"
    /\ ~patientsPage[c].isDialogOpen
    /\ first => (patientsPage[c].list = {} /\ ~patientsPage[c].loading)
    /\ patientsPage' = [patientsPage EXCEPT
          ![c].isDialogOpen = TRUE,
          ![c].form = IF first THEN @ ELSE NULL]
    /\ UNCHANGED <<storeVars, lastWrite, pageVars, filterVars, formVars,
                   layout, recordsPage, doctorsPage>>

\* The Add Doctor button or the Add First Doctor button; the page is
\* rendered for an admin only.
DoctorsOpenDialog(c, first) ==
    /\ layout[c].route = "/doctors"
    /\ ProfileRole(c) = "admin"
    /\ ~doctorsPage[c].isDialogOpen
    /\ first => (doctorsPage[c].list = {} /\ ~doctorsPage[c].loading)
    /\ doctorsPage' = [doctorsPage EXCEPT
          ![c].isDialogOpen = TRUE,
          ![c].form = IF first THEN @ ELSE NULL]
    /\ UNCHANGED <<storeVars, lastWrite, pageVars, filterVars, formVars,
                   layout, recordsPage, patientsPage>>

\* Typing into the Add Patient form.
PatientsEditForm(c, name) ==
    /\ patientsPage[c].isDialogOpen
    /\ patientsPage[c].form # name
    /\ patientsPage' = [patientsPage EXCEPT ![c].form = name]
    /\ UNCHANGED <<storeVars, lastWrite, pageVars, filterVars, formVars,
                   layout, recordsPage, doctorsPage>>

\* Typing into the Add Doctor form.
DoctorsEditForm(c, name) ==
    /\ doctorsPage[c].isDialogOpen
    /\ doctorsPage[c].form # name
    /\ doctorsPage' = [doctorsPage EXCEPT ![c].form = name]
    /\ UNCHANGED <<storeVars, lastWrite, pageVars, filterVars, formVars,
                   layout, recordsPage, patientsPage>>

\* The Cancel button of either dialog: setIsDialogOpen(false).
DirectoryCancel(c) ==
    /\ patientsPage[c].isDialogOpen \/ doctorsPage[c].isDialogOpen
    /\ patientsPage' = [patientsPage EXCEPT ![c].isDialogOpen = FALSE]
    /\ doctorsPage' = [doctorsPage EXCEPT ![c].isDialogOpen = FALSE]
    /\ UNCHANGED <<storeVars, lastWrite, pageVars, filterVars, formVars,
                   layout, recordsPage>>

\* Patients.handleSubmit: the form's required fields are filled in.
PatientsHandleSubmit(c) ==
    /\ patientsPage[c].isDialogOpen
    /\ patientsPage[c].form # NULL
    /\ toast' = [toast EXCEPT ![c] = PatientsInfo]
    /\ patientsPage' = [patientsPage EXCEPT ![c] = SubmittedPage(@)]
    /\ UNCHANGED <<storeVars, lastWrite, authUid, userProfile, pageAppointments,
                   loading, fetches, doctorOptions, patientOptions,
                   optionsPending, lastFetch, filterVars, formVars,
                   layout, recordsPage, doctorsPage>>

\* Doctors.handleSubmit: the form's required fields are filled in.
DoctorsHandleSubmit(c) ==
    /\ doctorsPage[c].isDialogOpen
    /\ doctorsPage[c].form # NULL
    /\ toast' = [toast EXCEPT ![c] = DoctorsInfo]
    /\ doctorsPage' = [doctorsPage EXCEPT ![c] = SubmittedPage(@)]
    /\ UNCHANGED <<storeVars, lastWrite, authUid, userProfile, pageAppointments,
                   loading, fetches, doctorOptions, patientOptions,
                   optionsPending, lastFetch, filterVars, formVars,
                   layout, recordsPage, patientsPage>>

DirectoryNext ==
    \/ \E u \in Users, r \in Roles : SignUp(u, r)
    \/ \E p \in Ids(profiles) : ProvisionPatient(p)
    \/ \E p \in Ids(profiles) : ProvisionDoctor(p)
    \/ \E c \in Clients, u \in Users : PatientsOpen(c, u)
    \/ \E c \in Clients, u \in Users : DoctorsOpen(c, u)
    \/ \E c \in Clients : DirectoryProfileChange(c)
    \/ \E c \in Clients : FetchPatients(c)
    \/ \E c \in Clients : FetchPatientsFail(c)
    \/ \E c \in Clients : FetchDoctors(c)
    \/ \E c \in Clients : FetchDoctorsFail(c)
    \/ \E c \in Clients, first \in BOOLEAN : PatientsOpenDialog(c, first)
    \/ \E c \in Clients, first \in BOOLEAN : DoctorsOpenDialog(c, first)
    \/ \E c \in Clients, name \in FormNames : PatientsEditForm(c, name)
    \/ \E c \in Clients, name \in FormNames : DoctorsEditForm(c, name)
    \/ \E c \in Clients : DirectoryCancel(c)
    \/ \E c \in Clients : PatientsHandleSubmit(c)
    \/ \E c \in Clients : DoctorsHandleSubmit(c)

DirectorySpec == Init /\ [][DirectoryNext]_vars

\* ------------------------------------------ the pages when the store answers
\* The store answers a request of the page client c is on.
StoreAnswers(c) ==
    \/ \E i \in 1..MaxInFlight : FetchLookup(c, i)
    \/ \E i \in 1..MaxInFlight : FetchComplete(c, i)
    \/ \E i \in 1..MaxInFlight : FetchFail(c, i)
    \/ \E i \in 1..MaxInFlight : RecordsFetchLookup(c, i)
    \/ \E i \in 1..MaxInFlight : RecordsFetchComplete(c, i)
    \/ \E i \in 1..MaxInFlight : RecordsFetchFail(c, i)
    \/ FetchPatients(c)
    \/ FetchPatientsFail(c)
    \/ FetchDoctors(c)
    \/ FetchDoctorsFail(c)

AnsweredNext ==
    \/ \E u \in Users, r \in Roles : SignUp(u, r)
    \/ \E pid \in Ids(profiles) : ProvisionPatient(pid)
    \/ \E pid \in Ids(profiles) : ProvisionDoctor(pid)
    \/ ProvisionAppointment({1}, {1}, {NULL}, {{}})
    \/ \E c \in Clients, u \in Users : SignIn(c, u)
    \/ \E c \in Clients : ProfileChange(c)
    \/ \E c \in Clients, i \in 1..MaxAppointments, st \in Statuses : ClickStatus(c, i, st)
    \/ \E c \in Clients, u \in Users : RecordsOpen(c, u)
    \/ \E c \in Clients : RecordsProfileChange(c)
    \/ \E c \in Clients, u \in Users : PatientsOpen(c, u)
    \/ \E c \in Clients, u \in Users : DoctorsOpen(c, u)
    \/ \E c \in Clients : DirectoryProfileChange(c)
    \/ \E c \in Clients : StoreAnswers(c)

\* The store answers every request: an answer that stays possible is given.
AnsweredSpec ==
    /\ Init
    /\ [][AnsweredNext]_vars
    /\ \A c \in Clients : WF_vars(StoreAnswers(c))

\* ------------------------------------------------------ AppLayout: routes
\* The routes with one of them not wrapped in AppLayout.
LayoutRoutesWithoutRecords == {"/", "/patients", "/doctors", "/appointments"}

\* The routes whose element is wrapped in AppLayout.
LayoutRoutes == {"/", "/patients", "/doctors", "/appointments", "/medical-records"}

\* <Routes>: the paths a client is shown a page of the application on.
Routes == {"/auth", "/", "/patients", "/doctors", "/appointments", "/medical-records"}

\* AppLayout is mounted on route r.
Mounted(r) == r \in LayoutRoutes

\* The application opens on any route; the session is being restored.
LayoutInit ==
    /\ profiles = {}
    /\ patients = {}
    /\ doctors = {}
    /\ appointments = {}
    /\ medical_records = {}
    /\ lastWrite = NoWrite
    /\ authUid = [c \in Clients |-> NoId]
    /\ userProfile = [c \in Clients |-> {}]
    /\ pageAppointments = [c \in Clients |-> <<>>]
    /\ loading = [c \in Clients |-> TRUE]
    /\ fetches = [c \in Clients |-> <<>>]
    /\ doctorOptions = [c \in Clients |-> {}]
    /\ patientOptions = [c \in Clients |-> {}]
    /\ optionsPending = [c \in Clients |-> FALSE]
    /\ toast = [c \in Clients |-> NULL]
    /\ lastFetch = [c \in Clients |-> [outcome |-> NULL, role |-> NULL]]
    /\ searchTerm = [c \in Clients |-> <<>>]
    /\ statusFilter = [c \in Clients |-> "all"]
    /\ isDialogOpen = [c \in Clients |-> FALSE]
    /\ appointmentForm = [c \in Clients |-> EmptyAppointmentForm]
    /\ layout \in [Clients -> {[LayoutStart EXCEPT !.route = r, !.effect = Mounted(r)] :
                                  r \in Routes}]
    /\ recordsPage = [c \in Clients |-> RecordsPageStart]
    /\ patientsPage = [c \in Clients |-> DirectoryPageStart]
    /\ doctorsPage = [c \in Clients |-> DirectoryPageStart]

\* The auth context finishes restoring the session: loading becomes false
\* and user is the identity of the stored session, or null when there is
\* none.  A mounted AppLayout re-renders and its effect is scheduled.
SessionLoaded(c, u) ==
    /\ layout[c].loading
    /\ u = NoId \/ (u \in Users /\ HasProfile(u))
    /\ authUid' = [authUid EXCEPT ![c] = u]
    /\ layout' = [layout EXCEPT ![c].loading = FALSE,
                                ![c].effect = Mounted(layout[c].route),
                                ![c].event = "loaded"]
    /\ UNCHANGED <<storeVars, lastWrite, userProfile, pageAppointments, loading,
                   fetches, doctorOptions, patientOptions, optionsPending, toast,
                   lastFetch, filterVars, formVars, recordsPage, patientsPage,
                   doctorsPage>>

\* A user signs in on the /auth page: user becomes that identity.
AuthSignIn(c, u) ==
    /\ ~layout[c].loading
    /\ layout[c].route = "/auth"
    /\ authUid[c] = NoId
    /\ HasProfile(u)
    /\ authUid' = [authUid EXCEPT ![c] = u]
    /\ layout' = [layout EXCEPT ![c].event = "signed_in"]
    /\ UNCHANGED <<storeVars, lastWrite, userProfile, pageAppointments, loading,
                   fetches, doctorOptions, patientOptions, optionsPending, toast,
                   lastFetch, filterVars, formVars, recordsPage, patientsPage,
                   doctorsPage>>

\* The Sign Out button of the sidebar (or the session ends): user becomes
\* null.  A mounted AppLayout re-renders and its effect is scheduled.
AuthSignOut(c) ==
    /\ ~layout[c].loading
    /\ authUid[c] # NoId
    /\ authUid' = [authUid EXCEPT ![c] = NoId]
    /\ userProfile' = [userProfile EXCEPT ![c] = {}]
    /\ layout' = [layout EXCEPT ![c].effect = Mounted(layout[c].route),
                                ![c].event = "signed_out"]
    /\ UNCHANGED <<storeVars, lastWrite, pageAppointments, loading,
                   fetches, doctorOptions, patientOptions, optionsPending, toast,
                   lastFetch, filterVars, formVars, recordsPage, patientsPage,
                   doctorsPage>>

\* The location changes to route r by a link of the sidebar or the browser's
\* back and forward buttons.  An AppLayout that mounts schedules its effect;
\* between two routes that both render AppLayout the component is either
\* kept or mounted anew (remount).
Navigate(c, r, remount) ==
    /\ r \in Routes
    /\ r # layout[c].route
    /\ layout' = [layout EXCEPT
          ![c].route = r,
          ![c].effect = /\ Mounted(r)
                        /\ (layout[c].effect \/ ~Mounted(layout[c].route) \/ remount)]
    /\ UNCHANGED <<storeVars, lastWrite, pageVars, filterVars, formVars,
                   recordsPage, patientsPage, doctorsPage>>

\* AppLayout's effect on [user, loading, navigate]:
\* if (!loading && !user) navigate('/auth').
LayoutEffect(c) ==
    /\ layout[c].effect
    /\ Mounted(layout[c].route)
    /\ layout' = [layout EXCEPT
          ![c].effect = FALSE,
          ![c].route = IF ~layout[c].loading /\ authUid[c] = NoId
                       THEN "/auth" ELSE @,
          ![c].redirect = IF ~layout[c].loading /\ authUid[c] = NoId
                          THEN layout[c].event ELSE @]
    /\ UNCHANGED <<storeVars, lastWrite, pageVars, filterVars, formVars,
                   recordsPage, patientsPage, doctorsPage>>

LayoutNext ==
    \/ \E u \in Users, r \in Roles \cup {NULL} : SignUp(u, r)
    \/ \E c \in Clients, u \in Users \cup {NoId} : SessionLoaded(c, u)
    \/ \E c \in Clients, u \in Users : AuthSignIn(c, u)
    \/ \E c \in Clients : AuthSignOut(c)
    \/ \E c \in Clients, r \in Routes, remount \in BOOLEAN : Navigate(c, r, remount)
    \/ \E c \in Clients : LayoutEffect(c)

\* React runs a scheduled effect: the effect step is weakly fair.
LayoutSpec ==
    /\ LayoutInit
    /\ [][LayoutNext]_vars
    /\ \A c \in Clients : WF_vars(LayoutEffect(c))

\* --------------------------------------- Appointments: search and filter
\* The search without the lower-casing.
matchesSearchCaseSensitive(row, term) ==
    \/ includes(row.patient_name, term)
    \/ includes(row.doctor_name, term)
    \/ \E rs \in row.reason : includes(rs, term)

\* matchesSearch of filteredAppointments: the lower-cased term is looked for
\* in the patient's name, the doctor's name and, when it is not null, the
\* reason (appointment.reason?.toLowerCase().includes(...)).
matchesSearch(row, term) ==
    \/ includes(toLowerCase(row.patient_name), toLowerCase(term))
    \/ includes(toLowerCase(row.doctor_name), toLowerCase(term))
    \/ \E rs \in row.reason : includes(toLowerCase(rs), toLowerCase(term))

\* The status test without the 'all' case.
matchesStatusNoAll(row, filter) == row.status = filter

\* matchesStatus of filteredAppointments
matchesStatus(row, filter) == filter = "all" \/ row.status = filter

\* Array.prototype.filter with the predicate of filteredAppointments
RECURSIVE filterRows(_, _, _)
filterRows(list, term, filter) ==
    IF list = <<>> THEN <<>>
    ELSE LET rest == filterRows(Tail(list), term, filter)
         IN IF matchesSearch(Head(list), term) /\ matchesStatus(Head(list), filter)
            THEN <<Head(list)>> \o rest
            ELSE rest

\* filteredAppointments as client c's current render computes it.
filteredAppointments(c) ==
    filterRows(pageAppointments[c], searchTerm[c], statusFilter[c])

\* The values of the status Select.
StatusFilterValues == {"all", "scheduled", "completed", "cancelled", "no_show"}

\* What is typed into the search box.
SearchTerms ==
    { <<>>,
      <<"j", "a", "n", "e">>,
      <<"J", "A", "N", "E">>,
      <<"o", "e">>,
      <<"f", "l", "u">> }

\* onChange of the search Input
SetSearchTerm(c, term) ==
    /\ searchTerm' = [searchTerm EXCEPT ![c] = term]
    /\ UNCHANGED <<storeVars, lastWrite, pageVars, statusFilter>>
    /\ UNCHANGED <<formVars, otherVars>>

\* onValueChange of the status Select
SetStatusFilter(c, value) ==
    /\ statusFilter' = [statusFilter EXCEPT ![c] = value]
    /\ UNCHANGED <<storeVars, lastWrite, pageVars, searchTerm>>
    /\ UNCHANGED <<formVars, otherVars>>

\* The filter as a function of the fetched list: the list starts as any
\* ordered list of at most MaxAppointments joined rows over two names.
FilterNames == {FullNameOf(u) : u \in Users}
FilterReasons == { {}, {<<"F", "l", "u">>} }
FilterInputRows(id) ==
    [id : {id}, appointment_date : {1}, appointment_time : {1},
     status : Statuses, reason : FilterReasons,
     patient_name : FilterNames, doctor_name : FilterNames]
FilterLists ==
    UNION { {seq \in [1..n -> UNION {FilterInputRows(id) : id \in 1..n}] :
                \A i \in 1..n : seq[i].id = i} : n \in 0..MaxAppointments }

FilterInit ==
    /\ profiles = {}
    /\ patients = {}
    /\ doctors = {}
    /\ appointments = {}
    /\ medical_records = {}
    /\ lastWrite = NoWrite
    /\ authUid = [c \in Clients |-> NoId]
    /\ userProfile = [c \in Clients |-> {}]
    /\ pageAppointments \in [Clients -> FilterLists]
    /\ loading = [c \in Clients |-> FALSE]
    /\ fetches = [c \in Clients |-> <<>>]
    /\ doctorOptions = [c \in Clients |-> {}]
    /\ patientOptions = [c \in Clients |-> {}]
    /\ optionsPending = [c \in Clients |-> FALSE]
    /\ toast = [c \in Clients |-> NULL]
    /\ lastFetch = [c \in Clients |-> [outcome |-> "ok", role |-> NULL]]
    /\ searchTerm = [c \in Clients |-> <<>>]
    /\ statusFilter = [c \in Clients |-> "all"]
    /\ isDialogOpen = [c \in Clients |-> FALSE]
    /\ appointmentForm = [c \in Clients |-> EmptyAppointmentForm]
    /\ layout = [c \in Clients |-> LayoutStart]
    /\ recordsPage = [c \in Clients |-> RecordsPageStart]
    /\ patientsPage = [c \in Clients |-> DirectoryPageStart]
    /\ doctorsPage = [c \in Clients |-> DirectoryPageStart]

FilterNext ==
    \/ \E c \in Clients, term \in SearchTerms : SetSearchTerm(c, term)
    \/ \E c \in Clients, value \in StatusFilterValues : SetStatusFilter(c, value)

FilterSpec == FilterInit /\ [][FilterNext]_vars

\* ------------------------------------------------------------------ claims
\* C1 (as claimed): every patients, appointments and medical_records row
\* the read policies return to an identity whose profile role is patient
\* belongs to that identity.
C1_PatientSeesOnlyOwn ==
    \A prof \in profiles :
        prof.role = "patient" =>
            /\ \A r \in VisiblePatients(prof.user_id) : r.profile_id = prof.id
            /\ \A r \in VisibleAppointments(prof.user_id) :
                   r.patient_id \in OwnPatientIds(prof.user_id)
            /\ \A r \in VisibleRecords(prof.user_id) :
                   r.patient_id \in OwnPatientIds(prof.user_id)

\* C2 (as claimed): an identity whose profile role is doctor reads every
\* patients row, and an insert or update it issues on appointments or
\* medical_records takes effect exactly when the row's doctor_id is the id
\* of its own doctors row.
C2_DoctorReadsAllWritesOwn ==
    /\ \A prof \in profiles :
           prof.role = "doctor" => VisiblePatients(prof.user_id) = patients
    /\ (lastWrite.cmd # NULL /\ lastWrite.role = "doctor")
           => (lastWrite.effect <=> lastWrite.own)

\* C3 (as claimed): an identity whose profile role is admin reads every row
\* of all five tables.
C3_AdminReadsAll ==
    \A prof \in profiles :
        prof.role = "admin" =>
            /\ VisibleProfiles(prof.user_id) = profiles
            /\ VisiblePatients(prof.user_id) = patients
            /\ VisibleDoctors(prof.user_id) = doctors
            /\ VisibleAppointments(prof.user_id) = appointments
            /\ VisibleRecords(prof.user_id) = medical_records

C5_TransitionSucceeds ==
    (lastWrite.cmd = "UPDATE" /\ lastWrite.shown # NULL) =>
        /\ ( /\ lastWrite.was = "scheduled"
             /\ \/ lastWrite.role = "admin"
                \/ (lastWrite.role = "doctor" /\ lastWrite.own) )
              => lastWrite.stored = lastWrite.given
        /\ lastWrite.shown \in {"Appointment completed successfully",
                                "Appointment cancelled successfully"}
              => lastWrite.stored = lastWrite.given

\* C6: an appointment inserted with no status named is stored as scheduled,
\* and every insert the booking form sends names status scheduled, so that
\* a row it stores is stored as scheduled.
C6_DefaultScheduled ==
    (lastWrite.cmd = "INSERT" /\ lastWrite.table = "appointments") =>
        /\ (lastWrite.given = NULL /\ lastWrite.effect) => lastWrite.stored = "scheduled"
        /\ lastWrite.shown # NULL =>
              /\ lastWrite.given = "scheduled"
              /\ lastWrite.effect => lastWrite.stored = "scheduled"

\* C6 witness: the booking form has been submitted, and an appointment was
\* then inserted with no status named.
C6_Witness ==
    /\ \E c \in Clients : toast[c] \in {"Failed to schedule appointment",
                                       "Appointment scheduled successfully"}
    /\ lastWrite.cmd = "INSERT"
    /\ lastWrite.table = "appointments"
    /\ lastWrite.given = NULL
    /\ lastWrite.effect

\* C7 (as claimed): the list the page stores when a fetch issued for an
\* admin completes holds every appointment row of the store.
C7_AdminListComplete ==
    [][ \A c \in Clients :
            ( /\ Len(fetches'[c]) < Len(fetches[c])
              /\ lastFetch'[c].outcome = "ok"
              /\ lastFetch'[c].role = "admin" )
            => {pageAppointments'[c][i].id : i \in DOMAIN pageAppointments'[c]}
                  = {a.id : a \in appointments'}
      ]_vars

\* Ascending by (appointment_date, appointment_time).
DateTimeAscending(list) ==
    \A i, j \in DOMAIN list :
        i < j =>
            \/ list[i].appointment_date < list[j].appointment_date
            \/ /\ list[i].appointment_date = list[j].appointment_date
               /\ list[i].appointment_time <= list[j].appointment_time

\* C8: the list the Appointments page holds is in ascending order of
\* (appointment_date, appointment_time), and so is what any search term and
\* status filter leave of it.
C8_ListOrdered ==
    \A c \in Clients :
        /\ DateTimeAscending(pageAppointments[c])
        /\ \A term \in SearchTerms, value \in StatusFilterValues :
              DateTimeAscending(filterRows(pageAppointments[c], term, value))

\* C8 witness: a fetch has succeeded with two rows, the earlier date having
\* the later time, and a search term keeps both.
C8_Witness ==
    \E c \in Clients :
        /\ lastFetch[c].outcome = "ok"
        /\ Len(pageAppointments[c]) = 2
        /\ pageAppointments[c][1].appointment_date < pageAppointments[c][2].appointment_date
        /\ pageAppointments[c][1].appointment_time > pageAppointments[c][2].appointment_time
        /\ Len(filterRows(pageAppointments[c], <<"o", "e">>, "scheduled")) = 2

\* Two characters that are the same letter, in either case.
SameLetter(a, b) ==
    \/ a = b
    \/ \E i \in DOMAIN UpperChars : {a, b} = {UpperChars[i], LowerChars[i]}
\* sub occurs in str, ignoring case.
OccursIgnoringCase(str, sub) ==
    \E k \in 0..(Len(str) - Len(sub)) :
        \A j \in 1..Len(sub) : SameLetter(str[k + j], sub[j])
RowsOf(list) == {list[i] : i \in DOMAIN list}

C10_StatusFilter ==
    \A c \in Clients :
        LET list == pageAppointments[c]
            shown == filteredAppointments(c)
            passing == {r \in RowsOf(list) : matchesSearch(r, searchTerm[c])}
        IN /\ statusFilter[c] = "all" => RowsOf(shown) = passing
           /\ (statusFilter[c] = "all" /\ searchTerm[c] = <<>>) => shown = list
           /\ statusFilter[c] # "all" =>
                 RowsOf(shown) = {r \in passing : r.status = statusFilter[c]}

\* C10 witness: the filter is 'cancelled' on a list with a cancelled row and
\* a row of another status, and the cancelled row alone is shown.
C10_Witness ==
    \E c \in Clients :
        /\ statusFilter[c] = "cancelled"
        /\ searchTerm[c] = <<>>
        /\ Len(pageAppointments[c]) = 2
        /\ pageAppointments[c][1].status = "cancelled"
        /\ pageAppointments[c][2].status = "scheduled"
        /\ filteredAppointments(c) = <<pageAppointments[c][1]>>

\* C11: every doctors row is returned to every identity that has signed up,
\* and an update or delete of a doctors row sent by an identity takes effect
\* only when the row belongs to that identity's profile: no other identity,
\* whatever its role, changes or deletes it.
C11_DoctorsDirectory ==
    /\ \A prof \in profiles : VisibleDoctors(prof.user_id) = doctors
    /\ ( /\ lastWrite.cmd \in {"UPDATE", "DELETE"}
         /\ lastWrite.table = "doctors"
         /\ lastWrite.role # "sql"
         /\ lastWrite.effect )
          => lastWrite.own

\* C11 witness: the owner of a doctors row has changed its specialization
\* while a profile of another identity exists.
C11_Witness ==
    /\ lastWrite.cmd = "UPDATE"
    /\ lastWrite.table = "doctors"
    /\ lastWrite.effect
    /\ lastWrite.own
    /\ lastWrite.stored = "Cardiology"
    /\ Cardinality(profiles) = 2

\* The patient has an appointment with the doctors row.
Treated(patient_id, doctor_id) ==
    \E a \in appointments : a.patient_id = patient_id /\ a.doctor_id = doctor_id

C13_RedirectToAuth ==
    \A c \in Clients :
        \A r \in {"/", "/patients", "/doctors", "/appointments", "/medical-records"} :
            (~layout[c].loading /\ authUid[c] = NoId /\ layout[c].route = r)
                ~> (layout[c].route = "/auth")

\* C13 witness: after a sign-out on a protected page AppLayout has navigated
\* to /auth.
C13_Witness ==
    \E c \in Clients :
        /\ layout[c].redirect = "signed_out"
        /\ layout[c].event = "signed_out"
        /\ layout[c].route = "/auth"
        /\ authUid[c] = NoId

\* C14: submitting the Add Patient or the Add Doctor dialog as an admin
\* only shows the informational message: nothing is written, the store and
\* the fetched list stay as they were and no fetch starts; the dialog
\* closes and the form is reset.
C14_AddOnlyInforms ==
    [][\A c \in Clients :
          /\ PatientsHandleSubmit(c) =>
                /\ ProfileRole(c) = "admin"
                /\ storeVars' = storeVars /\ lastWrite' = lastWrite
                /\ toast'[c] = PatientsInfo
                /\ patientsPage'[c].list = patientsPage[c].list
                /\ patientsPage'[c].loading = patientsPage[c].loading
                /\ patientsPage'[c].fetching = patientsPage[c].fetching
                /\ ~patientsPage'[c].isDialogOpen
                /\ patientsPage'[c].form = NULL
          /\ DoctorsHandleSubmit(c) =>
                /\ ProfileRole(c) = "admin"
                /\ storeVars' = storeVars /\ lastWrite' = lastWrite
                /\ toast'[c] = DoctorsInfo
                /\ doctorsPage'[c].list = doctorsPage[c].list
                /\ doctorsPage'[c].loading = doctorsPage[c].loading
                /\ doctorsPage'[c].fetching = doctorsPage[c].fetching
                /\ ~doctorsPage'[c].isDialogOpen
                /\ doctorsPage'[c].form = NULL]_vars

\* C14 witness: an admin holding a fetched, non-empty list of doctors has
\* submitted the Add Doctor dialog and sees the informational message.
C14_Witness ==
    \E c \in Clients :
        /\ ProfileRole(c) = "admin"
        /\ toast[c] = DoctorsInfo
        /\ doctorsPage[c].list # {}
        /\ ~doctorsPage[c].loading
        /\ ~doctorsPage[c].isDialogOpen
        /\ doctorsPage[c].form = NULL

\* C15 (as claimed): when the store rejects a write sent by a page (an
\* appointment insert, a medical record insert, a status update: the row is
\* not stored, the status is not the one sent), the page shows a failure
\* notification and no success notification, starts no fetch, keeps its
\* list, and an input dialog stays open with the values entered.
C15_RejectedWriteReported ==
    [][ ( /\ lastWrite' # lastWrite
          /\ lastWrite'.cmd \in {"INSERT", "UPDATE"}
          /\ lastWrite'.shown # NULL
          /\ \/ lastWrite'.cmd = "INSERT" /\ ~lastWrite'.effect
             \/ lastWrite'.cmd = "UPDATE" /\ lastWrite'.stored # lastWrite'.given )
        => /\ lastWrite'.shown \in {"Failed to schedule appointment",
                                    "Failed to update appointment",
                                    "Failed to create medical record"}
           /\ \E c \in Clients :
                 /\ toast'[c] = lastWrite'.shown
                 /\ fetches'[c] = fetches[c]
                 /\ loading'[c] = loading[c]
                 /\ pageAppointments'[c] = pageAppointments[c]
                 /\ recordsPage'[c].fetches = recordsPage[c].fetches
                 /\ recordsPage'[c].records = recordsPage[c].records
                 /\ (lastWrite'.cmd = "INSERT" /\ lastWrite'.table = "appointments")
                       => /\ isDialogOpen[c] /\ isDialogOpen'[c]
                          /\ appointmentForm'[c] = appointmentForm[c]
                 /\ (lastWrite'.cmd = "INSERT" /\ lastWrite'.table = "medical_records")
                       => /\ recordsPage[c].isDialogOpen
                          /\ recordsPage'[c].isDialogOpen
                          /\ recordsPage'[c].recordForm = recordsPage[c].recordForm
      ]_vars

\* The notifications of a failed read.
FailedToLoad ==
    {"Failed to load appointments", "Failed to load medical records",
     "Failed to load patients", "Failed to load doctors"}

\* C16 (as claimed): every read that fails at the store (the lists of the
\* Appointments, MedicalRecords, Patients and Doctors pages and the
\* auxiliary option lists) shows a 'failed to load' notification and leaves
\* the data the page held as it was.  For the option lists, whose failure
\* leaves no trace of its own, the steps taken are those that only a failed
\* read explains: the store would have answered with something else.
C16_FailedReadReported ==
    [][\A c \in Clients :
          /\ (\E i \in 1..MaxInFlight : FetchFail(c, i)) =>
                /\ toast'[c] \in FailedToLoad
                /\ pageAppointments'[c] = pageAppointments[c]
          /\ (\E i \in 1..MaxInFlight : RecordsFetchFail(c, i)) =>
                /\ toast'[c] \in FailedToLoad
                /\ recordsPage'[c].records = recordsPage[c].records
          /\ FetchPatientsFail(c) =>
                /\ toast'[c] \in FailedToLoad
                /\ patientsPage'[c].list = patientsPage[c].list
          /\ FetchDoctorsFail(c) =>
                /\ toast'[c] \in FailedToLoad
                /\ doctorsPage'[c].list = doctorsPage[c].list
          /\ (FetchDoctorsAndPatientsFail(c) /\ ~FetchDoctorsAndPatients(c)) =>
                /\ toast'[c] \in FailedToLoad
                /\ doctorOptions'[c] = doctorOptions[c]
                /\ patientOptions'[c] = patientOptions[c]
          /\ (FetchDoctorDataFail(c) /\ ~FetchDoctorData(c)) =>
                /\ toast'[c] \in FailedToLoad
                /\ recordsPage'[c].appointments = recordsPage[c].appointments
                /\ recordsPage'[c].patients = recordsPage[c].patients
      ]_vars

\* C17: a patient identity with no medical_records row of its own sees,
\* once the fetch has completed, the 'No medical records yet' empty state,
\* and the completed fetch shows no notification; the 'Failed to load
\* medical records' notification appears only when the read failed.
C17_EmptyStateNotError ==
    [][\A c \in Clients :
          /\ ( /\ \E i \in 1..MaxInFlight : RecordsFetchComplete(c, i)
               /\ ProfileRole(c) = "patient"
               /\ \A r \in medical_records :
                     r.patient_id \notin OwnPatientIds(authUid[c]) )
             => /\ recordsPage'[c].records = {}
                /\ (recordsPage'[c].fetches = <<>>) => EmptyState(c)'
                /\ toast'[c] = toast[c]
          /\ ( /\ toast'[c] = "Failed to load medical records"
               /\ toast[c] # toast'[c] )
             => recordsPage'[c].lastFetch = "failed"
      ]_vars

\* C17 witness: a patient with no record of its own, while the store holds
\* a record, sees the empty state after a completed fetch that showed no
\* notification.
C17_Witness ==
    \E c \in Clients :
        /\ EmptyState(c)
        /\ recordsPage[c].lastFetch = "ok"
        /\ recordsPage[c].fetches = <<>>
        /\ toast[c] = NULL
        /\ medical_records # {}
        /\ \A r \in medical_records : r.patient_id \notin OwnPatientIds(authUid[c])

\* C18: creating an identity creates exactly one profile, whose role is the
\* role supplied at sign-up, or patient when none was supplied; no identity
\* ever has more than one profile, and every profile's role is one of
\* patient, doctor, admin.
C18_OneProfilePerIdentity ==
    /\ [](\A p \in profiles : p.role \in {"patient", "doctor", "admin"})
    /\ [](\A p, q \in profiles : p.user_id = q.user_id => p = q)
    /\ [][\A u \in Users :
             (~HasProfile(u) /\ HasProfile(u)') =>
                /\ Cardinality({p \in profiles' : p.user_id = u}) = 1
                /\ Cardinality(profiles' \ profiles) = 1
                /\ lastWrite'.role = "trigger"
                /\ \A p \in profiles' \ profiles :
                      p.role = IF lastWrite'.given = NULL THEN "patient"
                               ELSE lastWrite'.given
         ]_vars

\* C18 witness: a second identity signed up with no role supplied and got a
\* patient profile.
C18_Witness ==
    /\ Cardinality(profiles) = 2
    /\ lastWrite.cmd = "INSERT"
    /\ lastWrite.table = "profiles"
    /\ lastWrite.role = "trigger"
    /\ lastWrite.given = NULL
    /\ lastWrite.effect
    /\ lastWrite.stored = "patient"

\* C19: after any inserts and deletes every reference points at a stored
\* row (patients and doctors at a profile, appointments and medical records
\* at a patient and a doctor, a record's appointment, when it has one, at
\* an appointment); when a patient or a doctor goes, so do its appointments
\* and records; when an appointment goes while the patient and doctor of a
\* record that named it stay, the record stays, with no appointment.
C19_ReferentialIntegrity ==
    /\ [](/\ \A p \in patients \cup doctors : p.profile_id \in Ids(profiles)
          /\ \A r \in appointments \cup medical_records :
                r.patient_id \in Ids(patients) /\ r.doctor_id \in Ids(doctors)
          /\ \A r \in medical_records :
                r.appointment_id = NoId \/ r.appointment_id \in Ids(appointments))
    /\ [][ /\ \A r \in appointments \cup medical_records :
                ( \/ RowById(patients, r.patient_id) \notin patients'
                  \/ RowById(doctors, r.doctor_id) \notin doctors' )
                => (r \notin appointments' /\ r \notin medical_records')
           /\ \A r \in medical_records :
                ( /\ r.appointment_id # NoId
                  /\ RowById(appointments, r.appointment_id) \notin appointments'
                  /\ RowById(patients, r.patient_id) \in patients'
                  /\ RowById(doctors, r.doctor_id) \in doctors' )
                => [r EXCEPT !.appointment_id = NoId] \in medical_records'
         ]_vars

\* C19 witness: an appointment that a record named was deleted, and the
\* record is stored with no appointment.
C19_Witness ==
    /\ lastWrite.cmd = "DELETE"
    /\ lastWrite.table = "appointments"
    /\ lastWrite.was = "referenced"
    /\ \E r \in medical_records : r.appointment_id = NoId
    /\ appointments = {}

\* C20 (as claimed): at most one patients row and at most one doctors row
\* reference any profile, a patients row's profile has role patient and a
\* doctors row's profile has role doctor.
C20_OneToOneWithProfiles ==
    /\ \A prof \in profiles :
          /\ Cardinality({p \in patients : p.profile_id = prof.id}) <= 1
          /\ Cardinality({d \in doctors : d.profile_id = prof.id}) <= 1
    /\ \A p \in patients : \A prof \in profiles :
          prof.id = p.profile_id => prof.role = "patient"
    /\ \A d \in doctors : \A prof \in profiles :
          prof.id = d.profile_id => prof.role = "doctor"

\* C21 (as claimed): a fetch issued for a previous profile that completes
\* after the fetch issued for the current profile shows its data only in
\* passing: when it is the last fetch in flight and the list on display was
\* set by a completed fetch of the current profile, that list stays.
C21_CurrentProfileFetchWins ==
    [][\A c \in Clients :
          /\ ( /\ Len(fetches[c]) = 1
               /\ fetches[c][1].role # ProfileRole(c)
               /\ lastFetch[c].outcome = "ok"
               /\ lastFetch[c].role = ProfileRole(c)
               /\ FetchComplete(c, 1) )
             => pageAppointments'[c] = pageAppointments[c]
          /\ ( /\ Len(recordsPage[c].fetches) = 1
               /\ recordsPage[c].fetches[1].role # ProfileRole(c)
               /\ recordsPage[c].lastFetch = "ok"
               /\ RecordsFetchComplete(c, 1) )
             => recordsPage'[c].records = recordsPage[c].records
      ]_vars

\* C22 (as claimed): on every list page, whenever at least one main fetch
\* of the page is in flight, two overlapping fetches included, the page's
\* loading flag is true.
C22_LoadingWhileInFlight ==
    \A c \in Clients :
        /\ fetches[c] # <<>> => loading[c]
        /\ recordsPage[c].fetches # <<>> => recordsPage[c].loading
        /\ patientsPage[c].fetching => patientsPage[c].loading
        /\ doctorsPage[c].fetching => doctorsPage[c].loading

\* C23 (as claimed): each of the four list pages issues its read again every
\* time the signed-in profile changes: the step that delivers another
\* profile to a mounted page starts a fetch of that page's list.
C23_RefetchOnProfileChange ==
    [][\A c \in Clients :
          (userProfile'[c] # userProfile[c] /\ userProfile'[c] # {}) =>
             /\ ProfileChange(c) => Len(fetches'[c]) = Len(fetches[c]) + 1
             /\ layout[c].route = "/medical-records" =>
                   Len(recordsPage'[c].fetches) = Len(recordsPage[c].fetches) + 1
             /\ layout[c].route = "/patients" =>
                   (patientsPage'[c].fetching /\ patientsPage'[c].loading)
             /\ layout[c].route = "/doctors" =>
                   (doctorsPage'[c].fetching /\ doctorsPage'[c].loading)
      ]_vars

\* The notifications of a write that the store answered without an error.
SuccessMessages ==
    {"Appointment scheduled successfully", "Appointment completed successfully",
     "Appointment cancelled successfully", "Medical record created successfully"}

C26_NoSelfWidening ==
    [][\A u \in Users :
          ( \/ \E pid \in Ids(profiles), r \in Roles : UpdateProfileRole(u, pid, r)
            \/ ApiInsertAppointment(u)
            \/ ApiUpdateAppointment(u)
            \/ ApiInsertRecord(u) )
          => \A p \in VisiblePatients(u)' :
                \/ p \in VisiblePatients(u)
                \/ \E prof \in profiles : prof.user_id = u /\ prof.id = p.profile_id
      ]_vars

\* A list query sent for identity uid carries the equality filter on the
\* identity's own doctors or patients row that its role calls for.
FilteredForRole(uid, f) ==
    /\ RoleOfUser(uid) = "doctor" =>
          (f.filter.col = "doctor_id" /\ f.filter.val \in OwnDoctorIds(uid))
    /\ RoleOfUser(uid) = "patient" =>
          (f.filter.col = "patient_id" /\ f.filter.val \in OwnPatientIds(uid))

\* C27 (as claimed): every appointments or medical_records list query a page
\* sends while the viewer's role is doctor or patient carries an equality
\* filter on the viewer's own doctor_id or patient_id.
C27_QueriesFiltered ==
    \A c \in Clients :
        (authUid[c] # NoId /\ HasProfile(authUid[c])) =>
            /\ \A i \in DOMAIN fetches[c] :
                  fetches[c][i].stage = "query" =>
                      FilteredForRole(authUid[c], fetches[c][i])
            /\ \A i \in DOMAIN recordsPage[c].fetches :
                  recordsPage[c].fetches[i].stage = "query" =>
                      FilteredForRole(authUid[c], recordsPage[c].fetches[i])

\* C28 (as claimed): for every role that is offered the booking dialog the
\* option lists are loaded when the profile arrives, and the insert the
\* page sends names a stored doctors row and a stored patients row (for a
\* patient, the patient's own).
C28_BookingOptionsLoaded ==
    [][\A c \in Clients :
          /\ (ProfileChange(c) /\ ProfileRole(c)' \in {"patient", "doctor", "admin"})
                => optionsPending'[c]
          /\ HandleSubmit(c) =>
                /\ appointmentForm[c].doctorId \in Ids(doctors)
                /\ IF ProfileRole(c) = "patient"
                   THEN OwnPatientIds(authUid[c]) # {}
                   ELSE appointmentForm[c].patientId \in Ids(patients)
      ]_vars

\* C29 (as claimed): an insert a page issues is attributed to the
\* submitter's own row: a patient's booking is sent with the patient_id of
\* the submitter's own patients row, a medical record with the doctor_id of
\* the submitter's own doctors row; a doctor without a doctors row gets
\* 'Doctor profile not found', no insert is issued and the dialog stays
\* open.
C29_InsertsAttributedToOwnRow ==
    [][\A c \in Clients :
          /\ (HandleSubmit(c) /\ ProfileRole(c) = "patient") =>
                SingleId(VisiblePatients(authUid[c]), ProfileId(c))
                    \in OwnPatientIds(authUid[c])
          /\ RecordsHandleSubmit(c) =>
                IF SingleId(VisibleDoctors(authUid[c]), ProfileId(c)) = NoId
                THEN /\ toast'[c] = "Doctor profile not found"
                     /\ medical_records' = medical_records
                     /\ lastWrite' = lastWrite
                     /\ recordsPage'[c].isDialogOpen
                     /\ recordsPage'[c].recordForm = recordsPage[c].recordForm
                ELSE /\ lastWrite'.table = "medical_records"
                     /\ lastWrite'.own
      ]_vars

====
